---------------------------- MODULE Spec2Model ----------------------------
(***************************************************************************)
(* Model of the Letta browser extension's content script: the memory       *)
(* marker protocol (src/utils/memory-injection.ts, src/utils/dom-handlers) *)
(* and the overlay mount / watchdog / navigation engine                    *)
(* (src/universal-injector.ts).                                            *)
(*                                                                         *)
(* A JavaScript string is modelled as a sequence of atoms.  An atom is a    *)
(* run of characters that no operation of the code ever splits: a marker   *)
(* literal, a label, a value, or a single character (a blank, a line       *)
(* break, a bracket, a typed letter).  No atom other than the two marker   *)
(* literals contains "=", so a marker occurs in the characters exactly     *)
(* where its atom occurs, and indexOf, substring, split, join and trim on  *)
(* atoms compute what the code computes on characters.  Positions are      *)
(* 0-based as in JavaScript and count atoms.                               *)
(***************************************************************************)
EXTENDS Integers, Sequences, FiniteSets, TLC

VARIABLES
    \* ---- page / engine (universal-injector.ts) ----
    platform,              \* detectPlatform(): fixed for one document load
    initPc,                \* where init() stands: "settings", "blocks", "done"
    settings,              \* the settings snapshot read by init()
    cachedBlocks,          \* cachedBlocks
    targets,               \* placement targets the host page currently offers
    nodes,                 \* the wrappers created by the engine, by node id
    buttonHost,            \* buttonHost: id of the tracked wrapper's control, or NullNode
    buttonWatcherStarted,  \* buttonWatcherStarted
    mutationObserver,      \* number of connected MutationObservers of the watchdog
    buttonWatcherInterval, \* number of 2000 ms intervals of the watchdog that are set
    urlMonitorInterval,    \* the navigation monitor's 500 ms interval is set
    captureObserver,       \* the capture MutationObserver is connected
    unloadHooked,          \* cleanup is registered for beforeunload
    retryTimers,           \* pending setTimeout(mountButtonOnEditor, 1000)
    remountTimers,         \* pending 500 ms re-mount timers of the navigation monitor
    href,                  \* window.location.href
    lastUrl,               \* lastUrl
    lastStep,              \* history: the engine step that produced this state
    \* ---- editor surface and marker protocol ----
    editor,                \* the located editor element: [kind, text, children]
    injectedMemoryIds,     \* memory-injection.ts: injectedMemoryIds
    inputValueCopy,        \* universal-injector.ts: inputValueCopy
    sendText,              \* history: the user text shown when the last send was detected
    captureTimers,         \* pending setTimeout(captureAndSync ... , 100)
    keys,                  \* keystrokes made since the host last cleared the editor
    lastOp,                \* history: the operation that produced this state
    \* ---- pure round-trip harness ----
    rtPc, rtBlocks, rtText, rtContent, rtOut,
    \* ---- surface locator harness ----
    locPc,                 \* "idle", "input" (fixture drawn), "done" (located)
    locSurface,            \* the surface asked for: "editor", "send", "anchor"
    locDom,                \* the document: what each lookup finds
    locResult,             \* what the locator returned
    \* ---- recent-context harness ----
    recPc,                 \* "idle", "input" (page drawn), "done" (context read)
    recPage,               \* the host page's message elements, in document order
    recOut,                \* what getRecentMessages returned
    \* ---- extension storage, remote calls ----
    savedSettings,         \* the settings the popup saved after init() read them
    remote,                \* history: the last remote call, its outcome, its toasts
    \* ---- capture listeners ----
    capPc,                 \* "init" (before setupMessageCapture), "set"
    capDom,                \* the send-action and editor elements, their flags and listeners
    \* ---- editor write harness ----
    wrPc,                  \* "idle", "input" (element and value drawn), "done" (written)
    wrIn,                  \* the element written to, the value, whether the user edited it
    wrOut,                 \* what setInputValue left: the element, the events dispatched
    \* ---- background service worker, extension storage, platform resolvers ----
    bg,                    \* background.ts: lastSyncTime, lastCapturedHash, the handleSync calls in flight
    store,                 \* storage.ts: the stored settings, the saveSettings calls in flight
    det                    \* the page address given to the two detectPlatform functions, their results

markerVars == <<editor, injectedMemoryIds, inputValueCopy, sendText, captureTimers,
                keys, lastOp>>
locVars == <<locPc, locSurface, locDom, locResult>>
recVars == <<recPc, recPage, recOut>>
storageVars == <<savedSettings, remote>>
capVars == <<capPc, capDom>>
wrVars == <<wrPc, wrIn, wrOut>>
bgVars == <<bg, store, det>>
rtVars == <<rtPc, rtBlocks, rtText, rtContent, rtOut, locVars, recVars, storageVars,
           capVars, wrVars, bgVars>>
engineVars == <<initPc, settings, cachedBlocks, targets, nodes, buttonHost,
                buttonWatcherStarted, mutationObserver, buttonWatcherInterval,
                urlMonitorInterval, captureObserver, unloadHooked, retryTimers,
                remountTimers, href, lastUrl, lastStep>>
vars == <<platform, engineVars, markerVars, rtVars>>

-----------------------------------------------------------------------------
(* Bounds of the model *)

\* keystrokes the user makes before the host page clears the editor
MaxKeys == 2
\* pending capture timers (100 ms) at one time
MaxCaptureTimers == 1
\* atoms the editor content may hold (writes that would exceed it are not made)
MaxContentLen == 22
\* message elements on the host page
MaxMessages == 3
\* selector rules of a list whose lookups the document decides (the later
\* rules of a list match nothing)
MaxRules == 3
\* wrapper nodes alive at one time (tracked, in the document, or holding listeners)
MaxNodes == 2
\* pending mount retry timers / pending re-mount timers at one time
MaxRetryTimers == 2
MaxRemountTimers == 1

-----------------------------------------------------------------------------
(* JavaScript strings *)

EmptyStr == <<>>
NL == "\n"

IsWhitespace(c) == c \in {" ", NL}

Min(S) == CHOOSE x \in S : \A y \in S : x <= y

\* String.prototype.indexOf(pat): first 0-based position of pat in s, or -1
IndexOf(s, pat) ==
    LET n == Len(pat)
        hits == {i \in 0..(Len(s) - n) :
                    \A k \in 1..n : s[i + k] = pat[k]}
    IN  IF hits = {} THEN -1 ELSE Min(hits)

\* String.prototype.includes
Includes(s, pat) == IndexOf(s, pat) # -1

\* String.prototype.substring(a, b) and substring(a)
Substring(s, a, b) == SubSeq(s, a + 1, b)
SubstringFrom(s, a) == SubSeq(s, a + 1, Len(s))

\* String.prototype.trim
Trim(s) ==
    LET keep == {i \in 1..Len(s) : ~IsWhitespace(s[i])}
    IN  IF keep = {} THEN EmptyStr
        ELSE SubSeq(s, Min(keep), CHOOSE x \in keep : \A y \in keep : y <= x)

\* String.prototype.split("\n")
RECURSIVE Split(_)
Split(s) ==
    LET i == IndexOf(s, <<NL>>)
    IN  IF i = -1 THEN <<s>>
        ELSE <<Substring(s, 0, i)>> \o Split(SubstringFrom(s, i + 1))

\* Array.prototype.join("\n")
RECURSIVE Join(_)
Join(lines) ==
    IF lines = <<>> THEN EmptyStr
    ELSE IF Len(lines) = 1 THEN lines[1]
    ELSE lines[1] \o <<NL>> \o Join(Tail(lines))

\* concatenation of the text of a list of nodes (Node.textContent)
RECURSIVE Concat(_)
Concat(lines) ==
    IF lines = <<>> THEN EmptyStr ELSE lines[1] \o Concat(Tail(lines))

-----------------------------------------------------------------------------
(* Marker literals: src/constants.ts *)

MEMORY_HEADER == <<"=== RELEVANT MEMORIES FROM LETTA ===">>
MEMORY_FOOTER == <<"=== END MEMORIES ===">>

-----------------------------------------------------------------------------
(* Memory blocks supplied by the remote service (read-only inputs) *)

Block(id, label, value) == [id |-> id, label |-> label, value |-> value]

\* {id: "b1", label: "facts", value: "Uses a laptop"}
FactsBlock == Block("b1", <<"facts">>, <<"Uses a laptop">>)
\* a block without id and label: the code's defaults apply
BareBlock == Block("", EmptyStr, <<"hi">>)
\* a block whose value quotes the footer literal
QuotingBlock == Block("b3", <<"notes">>, <<"see", " ">> \o MEMORY_FOOTER)
\* a block whose value quotes the header literal
HeaderQuotingBlock == Block("b4", <<"notes">>, <<"see", " ">> \o MEMORY_HEADER)

Blocks == {FactsBlock, BareBlock}
BlockLists == {<<>>, <<FactsBlock>>, <<FactsBlock, BareBlock>>}

-----------------------------------------------------------------------------
(* formatMemoriesForInjection *)

DefaultLabel == <<"Memory">>

LabelOf(memory) == IF memory.label = EmptyStr THEN DefaultLabel ELSE memory.label

RECURSIVE SectionLines(_)
SectionLines(memories) ==
    IF memories = <<>> THEN <<>>
    ELSE LET m == memories[1]
             rest == SectionLines(Tail(memories))
         IN  IF Trim(m.value) # EmptyStr
             THEN << <<"[">> \o LabelOf(m) \o <<"]">>, m.value, EmptyStr >> \o rest
             ELSE rest

formatMemoriesForInjection(memories) ==
    IF memories = <<>> THEN EmptyStr
    ELSE Join(<<MEMORY_HEADER, EmptyStr>> \o SectionLines(memories)
              \o <<MEMORY_FOOTER, EmptyStr>>)

-----------------------------------------------------------------------------
(* The editor surface (dom-handlers.ts).  An editor element is               *)
(*   kind     "textarea"  <textarea>                                         *)
(*            "ce"        <div contenteditable="true">                       *)
(*            "pm"        <div contenteditable="true" class="ProseMirror">   *)
(*            "input"     <input>                                            *)
(*            "p"         placeholder <p> whose parent is not editable       *)
(*            "pe"        placeholder <p> whose parent is the editable       *)
(*                        ProseMirror root                                   *)
(*            "none"      no visible element matches the platform's selectors*)
(*   text     the value of a textarea / the text node of a placeholder <p>   *)
(*   children the text of each <p> child of a rich-text surface              *)

NoPlatform == "null"
Platforms == {"chatgpt", "claude", "gemini", "perplexity"}

Editor(kind, text, children) == [kind |-> kind, text |-> text, children |-> children]
EmptyEditor(kind) == Editor(kind, EmptyStr, <<>>)

IsRich(kind) == kind \in {"ce", "pm"}

\* getTextarea(platform) returns an element
Located(p, ed) == p # NoPlatform /\ ed.kind # "none"

\* Node.textContent of the editor element
TextContent(ed) == IF IsRich(ed.kind) THEN Concat(ed.children) ELSE ed.text

\* HTMLElement.innerText of a rich-text surface: its paragraphs, one per line
InnerText(ed) == IF IsRich(ed.kind) THEN Join(ed.children) ELSE ed.text

\* getInputValue(el)
getInputValue(ed) ==
    IF ed.kind = "none" THEN EmptyStr
    ELSE IF ed.kind = "pm" THEN TextContent(ed)
    ELSE IF ed.kind = "p" THEN TextContent(ed)
    ELSE IF ed.kind = "ce"
         THEN (IF TextContent(ed) # EmptyStr THEN TextContent(ed) ELSE InnerText(ed))
    ELSE ed.text

\* value.split("\n") rendered as <p> children: a blank line becomes <p><br></p>
Paragraphs(value) ==
    LET lines == Split(value)
    IN  [i \in 1..Len(lines) |->
            IF Trim(lines[i]) = EmptyStr THEN EmptyStr ELSE lines[i]]

\* a plain form field: its content is its value
IsField(kind) == kind \in {"textarea", "input"}

\* the markup setClaudeInputValue builds, as the value of a <textarea> whose
\* innerHTML it was assigned to: the text of the markup, entities decoded
MarkupText(value) ==
    LET lines == Split(value)
        Tagged(line) == IF Trim(line) = EmptyStr THEN <<"<p><br></p>">>
                        ELSE <<"<p>">> \o line \o <<"</p>">>
    IN  Concat([i \in 1..Len(lines) |-> Tagged(lines[i])])

\* setClaudeInputValue: [editor after the write, events dispatched].  The
\* events are chosen by the class of the element passed in, also when the
\* write goes to its parent.  A form field gets the markup as innerHTML: an
\* <input> keeps its value, a <textarea> that was not edited shows the markup
setClaudeInputValue(ed, value) ==
    IF ed.kind = "p"
    THEN [editor |-> Editor("p", value, <<>>), events |-> <<"input">>]
    ELSE IF ed.kind = "pe"
    THEN [editor |-> Editor("pm", EmptyStr, Paragraphs(value)), events |-> <<"input">>]
    ELSE IF ed.kind = "input"
    THEN [editor |-> ed, events |-> <<"input">>]
    ELSE IF ed.kind = "textarea"
    THEN [editor |-> Editor("textarea", MarkupText(value), <<>>), events |-> <<"input">>]
    ELSE [editor |-> Editor(ed.kind, EmptyStr, Paragraphs(value)),
          events |-> IF ed.kind = "pm" THEN <<"input", "change">> ELSE <<"input">>]

\* setGeminiInputValue
setGeminiInputValue(ed, value) ==
    [editor |-> Editor(ed.kind, EmptyStr, Paragraphs(value)), events |-> <<"input">>]

\* setGenericContentEditableValue
setGenericContentEditableValue(ed, value) ==
    [editor |-> Editor(ed.kind, EmptyStr, Paragraphs(value)), events |-> <<"input">>]

\* setTextareaValue
setTextareaValue(ed, value) ==
    [editor |-> Editor(ed.kind, value, <<>>), events |-> <<"input", "change">>]

\* setInputValue(el, value): dispatch on platform and element kind
setInputValue(p, ed, value) ==
    IF p = "claude" THEN setClaudeInputValue(ed, value)
    ELSE IF p = "gemini" /\ IsRich(ed.kind) THEN setGeminiInputValue(ed, value)
    ELSE IF IsRich(ed.kind) THEN setGenericContentEditableValue(ed, value)
    ELSE IF IsField(ed.kind) THEN setTextareaValue(ed, value)
    ELSE setGenericContentEditableValue(ed, value)

-----------------------------------------------------------------------------
(* Strip-out: getContentWithoutMemories / extractUserMessage *)

\* faulty variant: the removed span stops at the footer's first character
StripMarkers_KeepsFooter(content) ==
    LET startIdx == IndexOf(content, MEMORY_HEADER)
        endIdx == IndexOf(content, MEMORY_FOOTER)
    IN  IF startIdx = -1 THEN Trim(content)
        ELSE IF endIdx # -1 /\ endIdx > startIdx
             THEN Trim(Substring(content, 0, startIdx) \o SubstringFrom(content, endIdx))
        ELSE Trim(Substring(content, 0, startIdx))

\* faulty variant: a header without a footer is left in the content
StripMarkers_KeepsMalformed(content) ==
    LET startIdx == IndexOf(content, MEMORY_HEADER)
        endIdx == IndexOf(content, MEMORY_FOOTER)
    IN  IF startIdx # -1 /\ endIdx # -1 /\ endIdx > startIdx
        THEN Trim(Substring(content, 0, startIdx)
                  \o SubstringFrom(content, endIdx + Len(MEMORY_FOOTER)))
        ELSE Trim(content)

\* the string part of getContentWithoutMemories(MEMORY_HEADER)
StripMarkers(content) ==
    LET startIdx == IndexOf(content, MEMORY_HEADER)
        endIdx == IndexOf(content, MEMORY_FOOTER)
    IN  IF startIdx = -1 THEN Trim(content)
        ELSE IF endIdx # -1 /\ endIdx > startIdx
             THEN Trim(Substring(content, 0, startIdx)
                       \o SubstringFrom(content, endIdx + Len(MEMORY_FOOTER)))
        ELSE Trim(Substring(content, 0, startIdx))

getContentWithoutMemories(p, ed) ==
    IF ~Located(p, ed) THEN EmptyStr ELSE StripMarkers(getInputValue(ed))

extractUserMessage(p, ed) == getContentWithoutMemories(p, ed)

-----------------------------------------------------------------------------
(* Splice-in: injectMemories, addSingleMemory, clearMemoriesFromInput.       *)
(* Each returns [ret, editor, ids, events]: the return value, the editor and *)
(* injectedMemoryIds after the call, the notification events dispatched.     *)

Outcome(ret, ed, ids, events) ==
    [ret |-> ret, editor |-> ed, ids |-> ids, events |-> events]

IdsOf(memories) ==
    {memories[i].id : i \in {j \in 1..Len(memories) : memories[j].id # ""}}

\* faulty variant: the new block is written before the content as it is, a
\* block injected earlier included
injectMemories_KeepsOld(p, ed, ids, memories) ==
    IF ~Located(p, ed) THEN Outcome(FALSE, ed, ids, <<>>)
    ELSE LET memoryText == formatMemoriesForInjection(memories)
         IN  IF memoryText = EmptyStr THEN Outcome(FALSE, ed, ids, <<>>)
             ELSE LET w == setInputValue(p, ed, memoryText \o getInputValue(ed))
                  IN  Outcome(TRUE, w.editor, ids \cup IdsOf(memories), w.events)

\* faulty variant: the platform is not asked for, any editor is written to
injectMemories_NoPlatformCheck(p, ed, ids, memories) ==
    IF ed.kind = "none" THEN Outcome(FALSE, ed, ids, <<>>)
    ELSE LET existingContent == StripMarkers(getInputValue(ed))
             memoryText == formatMemoriesForInjection(memories)
         IN  IF memoryText = EmptyStr THEN Outcome(FALSE, ed, ids, <<>>)
             ELSE LET w == setInputValue("chatgpt", ed, memoryText \o existingContent)
                  IN  Outcome(TRUE, w.editor, ids \cup IdsOf(memories), w.events)

\* memory-injection.ts injectMemories(memories)
injectMemories(p, ed, ids, memories) ==
    IF ~Located(p, ed) THEN Outcome(FALSE, ed, ids, <<>>)
    ELSE LET existingContent == getContentWithoutMemories(p, ed)
             memoryText == formatMemoriesForInjection(memories)
         IN  IF memoryText = EmptyStr THEN Outcome(FALSE, ed, ids, <<>>)
             ELSE LET w == setInputValue(p, ed, memoryText \o existingContent)
                  IN  Outcome(TRUE, w.editor, ids \cup IdsOf(memories), w.events)

\* faulty variant: without a header the entry is written bare, not delegated
addSingleMemory_NoDelegation(p, ed, ids, memory) ==
    IF ~Located(p, ed) THEN Outcome(FALSE, ed, ids, <<>>)
    ELSE IF memory.id # "" /\ memory.id \in ids THEN Outcome(FALSE, ed, ids, <<>>)
    ELSE LET currentContent == getInputValue(ed)
             footerIndex == IndexOf(currentContent, MEMORY_FOOTER)
             memoryEntry == <<NL, "[">> \o LabelOf(memory) \o <<"]", NL>>
                            \o memory.value \o <<NL>>
             at == IF Includes(currentContent, MEMORY_HEADER) /\ footerIndex # -1
                   THEN footerIndex ELSE 0
             w == setInputValue(p, ed, Substring(currentContent, 0, at) \o memoryEntry
                                       \o SubstringFrom(currentContent, at))
         IN  IF Includes(currentContent, MEMORY_HEADER) /\ footerIndex = -1
             THEN Outcome(FALSE, ed, ids, <<>>)
             ELSE Outcome(TRUE, w.editor,
                          IF memory.id # "" THEN ids \cup {memory.id} ELSE ids, w.events)

\* faulty variant: the footer's absence is not checked (indexOf's -1 is used)
addSingleMemory_NoFooterCheck(p, ed, ids, memory) ==
    IF ~Located(p, ed) THEN Outcome(FALSE, ed, ids, <<>>)
    ELSE IF memory.id # "" /\ memory.id \in ids THEN Outcome(FALSE, ed, ids, <<>>)
    ELSE LET currentContent == getInputValue(ed)
             footerIndex == IndexOf(currentContent, MEMORY_FOOTER)
             at == IF footerIndex = -1 THEN 0 ELSE footerIndex
             memoryEntry == <<NL, "[">> \o LabelOf(memory) \o <<"]", NL>>
                            \o memory.value \o <<NL>>
             w == setInputValue(p, ed, Substring(currentContent, 0, at) \o memoryEntry
                                       \o SubstringFrom(currentContent, at))
         IN  IF Includes(currentContent, MEMORY_HEADER)
             THEN Outcome(TRUE, w.editor,
                          IF memory.id # "" THEN ids \cup {memory.id} ELSE ids, w.events)
             ELSE injectMemories(p, ed, ids, <<memory>>)

addSingleMemory(p, ed, ids, memory) ==
    IF ~Located(p, ed) THEN Outcome(FALSE, ed, ids, <<>>)
    ELSE IF memory.id # "" /\ memory.id \in ids THEN Outcome(FALSE, ed, ids, <<>>)
    ELSE LET currentContent == getInputValue(ed)
             footerIndex == IndexOf(currentContent, MEMORY_FOOTER)
             memoryEntry == <<NL, "[">> \o LabelOf(memory) \o <<"]", NL>>
                            \o memory.value \o <<NL>>
         IN  IF Includes(currentContent, MEMORY_HEADER)
             THEN IF footerIndex # -1
                  THEN LET w == setInputValue(p, ed,
                                   Substring(currentContent, 0, footerIndex)
                                   \o memoryEntry
                                   \o SubstringFrom(currentContent, footerIndex))
                       IN  Outcome(TRUE, w.editor,
                                   IF memory.id # "" THEN ids \cup {memory.id} ELSE ids,
                                   w.events)
                  ELSE Outcome(FALSE, ed, ids, <<>>)
             ELSE injectMemories(p, ed, ids, <<memory>>)

clearMemoriesFromInput(p, ed, ids) ==
    IF ~Located(p, ed) THEN Outcome(FALSE, ed, ids, <<>>)
    ELSE LET w == setInputValue(p, ed, Trim(getContentWithoutMemories(p, ed)))
         IN  Outcome(TRUE, w.editor, {}, w.events)

-----------------------------------------------------------------------------
(* History record of the last operation: its name, its argument (a list of   *)
(* blocks), what the editor held before it ran (whether the content was      *)
(* empty, held the header, held the footer), its return value, and the       *)
(* userMessage it handed to syncToBackground (NoCapture when it sent none).  *)

Shape(content) ==
    [empty |-> content = EmptyStr,
     header |-> Includes(content, MEMORY_HEADER),
     footer |-> Includes(content, MEMORY_FOOTER)]
NoCapture == <<"no capture">>
Sent(name, pre, out) ==
    [name |-> name, arg |-> <<>>, pre |-> Shape(pre), ret |-> "none", out |-> out]
Op(name, arg, pre, ret) ==
    [name |-> name, arg |-> arg, pre |-> Shape(pre), ret |-> ret, out |-> NoCapture]
NoOp == Op("init", <<>>, EmptyStr, "none")
Ret(b) == IF b THEN "true" ELSE "false"

\* characters the user types (none of them occurs in a label or a value)
UserChars == {"q"}

\* (platform, editor kind) pairs the marker protocol is exercised on
EditorConfigs ==
    {<<"chatgpt", "textarea">>, <<"chatgpt", "ce">>, <<"claude", "pm">>,
     <<"claude", "p">>, <<"perplexity", "none">>,
     <<NoPlatform, "textarea">>}

-----------------------------------------------------------------------------
(* The user and the host page acting on the editor *)

\* typing one character at the end of the content
TypeInto(ed, c) ==
    IF IsRich(ed.kind)
    THEN IF ed.children = <<>> THEN Editor(ed.kind, EmptyStr, << <<c>> >>)
         ELSE Editor(ed.kind, EmptyStr,
                     [ed.children EXCEPT ![Len(ed.children)] = @ \o <<c>>])
    ELSE Editor(ed.kind, ed.text \o <<c>>, <<>>)

\* Shift+Enter: a line break in a plain field, a new paragraph in a rich one
BreakLine(ed) ==
    IF IsRich(ed.kind) THEN Editor(ed.kind, EmptyStr, ed.children \o <<EmptyStr>>)
    ELSE Editor(ed.kind, ed.text \o <<NL>>, <<>>)

\* Backspace at the end of the content
DeleteLast(ed) ==
    IF IsRich(ed.kind)
    THEN IF ed.children = <<>> THEN ed
         ELSE IF ed.children[Len(ed.children)] = EmptyStr
              THEN Editor(ed.kind, EmptyStr, SubSeq(ed.children, 1, Len(ed.children) - 1))
         ELSE Editor(ed.kind, EmptyStr,
                     [ed.children EXCEPT ![Len(ed.children)] = SubSeq(@, 1, Len(@) - 1)])
    ELSE Editor(ed.kind, SubSeq(ed.text, 1, Len(ed.text) - 1), <<>>)

\* s.indexOf(pat, from)
IndexOfFrom(s, pat, from) ==
    LET hits == {i \in from..(Len(s) - Len(pat)) : SubSeq(s, i + 1, i + Len(pat)) = pat}
    IN  IF hits = {} THEN -1 ELSE Min(hits)

\* the user's text in the editor: what the editor shows, one line per
\* paragraph, outside the block (from the header through the first footer
\* after it, or to the end when no footer follows), without surrounding blanks
UserText(ed) ==
    LET shown == InnerText(ed)
        startIdx == IndexOf(shown, MEMORY_HEADER)
        endIdx == IF startIdx = -1 THEN -1 ELSE IndexOfFrom(shown, MEMORY_FOOTER, startIdx)
    IN  IF ed.kind = "none" THEN EmptyStr
        ELSE IF startIdx = -1 THEN Trim(shown)
        ELSE IF endIdx = -1 THEN Trim(Substring(shown, 0, startIdx))
        ELSE Trim(Substring(shown, 0, startIdx)
                  \o SubstringFrom(shown, endIdx + Len(MEMORY_FOOTER)))

\* the history of the last send is kept until its timer has run
KeepSendText == sendText' = IF captureTimers > 0 THEN sendText ELSE EmptyStr

IsEmptyEditor(ed) == ed.text = EmptyStr /\ ed.children = <<>>

-----------------------------------------------------------------------------
(* Actions of the marker protocol and the capture path *)

\* memory-injection.ts injectMemories(memories), called with a list of blocks
SpliceIn(memories) ==
    LET r == injectMemories(platform, editor, injectedMemoryIds, memories)
    IN  /\ Len(getInputValue(r.editor)) <= MaxContentLen
        /\ editor' = r.editor
        /\ injectedMemoryIds' = r.ids
        /\ lastOp' = Op("SpliceIn", memories, getInputValue(editor), Ret(r.ret))
        /\ KeepSendText
        /\ UNCHANGED <<platform, inputValueCopy, captureTimers, keys, engineVars, rtVars>>

\* memory-injection.ts addSingleMemory(memory)
AddOne(memory) ==
    LET r == addSingleMemory(platform, editor, injectedMemoryIds, memory)
    IN  /\ Len(getInputValue(r.editor)) <= MaxContentLen
        /\ editor' = r.editor
        /\ injectedMemoryIds' = r.ids
        /\ lastOp' = Op("AddOne", <<memory>>, getInputValue(editor), Ret(r.ret))
        /\ KeepSendText
        /\ UNCHANGED <<platform, inputValueCopy, captureTimers, keys, engineVars, rtVars>>

\* handleKeydown for a key other than Enter, then the key's effect on the editor
KeyDown(name, after) ==
    /\ Located(platform, editor)
    /\ keys < MaxKeys
    /\ keys' = keys + 1
    /\ inputValueCopy' = extractUserMessage(platform, editor)
    /\ editor' = after
    /\ lastOp' = Op(name, <<>>, getInputValue(editor), "none")
    /\ KeepSendText
    /\ UNCHANGED <<platform, injectedMemoryIds, captureTimers, engineVars, rtVars>>

TypeChar(c) == KeyDown("TypeChar", TypeInto(editor, c))
ShiftEnter == KeyDown("ShiftEnter", BreakLine(editor))
Backspace == ~IsEmptyEditor(editor) /\ KeyDown("Backspace", DeleteLast(editor))

\* handleKeydown with Enter and no Shift: capture scheduled after 100 ms;
\* with track, the text the editor holds is recorded in the history
handleKeydownEnter(track) ==
    /\ Located(platform, editor)
    /\ captureTimers < MaxCaptureTimers
    /\ inputValueCopy' = extractUserMessage(platform, editor)
    /\ captureTimers' = captureTimers + 1
    /\ sendText' = IF track THEN UserText(editor) ELSE sendText
    /\ lastOp' = Op("PressEnter", <<>>, getInputValue(editor), "none")
    /\ UNCHANGED <<platform, editor, injectedMemoryIds, keys, engineVars, rtVars>>

PressEnter == handleKeydownEnter(FALSE)
TrackedEnter == handleKeydownEnter(TRUE)

\* handleSend: click on the send action; with track, the text the editor
\* holds is recorded in the history
handleSend(track) ==
    /\ platform # NoPlatform
    /\ captureTimers < MaxCaptureTimers
    /\ inputValueCopy' = extractUserMessage(platform, editor)
    /\ captureTimers' = captureTimers + 1
    /\ sendText' = IF track THEN UserText(editor) ELSE sendText
    /\ lastOp' = Op("ClickSend", <<>>, getInputValue(editor), "none")
    /\ UNCHANGED <<platform, editor, injectedMemoryIds, keys, engineVars, rtVars>>

ClickSend == handleSend(FALSE)
TrackedSend == handleSend(TRUE)

\* the host page empties its editor (it has sent the message)
HostClearsEditor ==
    /\ ~IsEmptyEditor(editor)
    /\ editor' = EmptyEditor(editor.kind)
    /\ keys' = 0
    /\ lastOp' = Op("HostClearsEditor", <<>>, getInputValue(editor), "none")
    /\ KeepSendText
    /\ UNCHANGED <<platform, injectedMemoryIds, inputValueCopy, captureTimers, engineVars, rtVars>>

\* the host page, having taken the message, removes or hides its editor
\* before the 100 ms timer runs: getTextarea() finds no visible element
HostRemovesEditor ==
    /\ Located(platform, editor)
    /\ captureTimers > 0
    /\ editor' = EmptyEditor("none")
    /\ keys' = 0
    /\ lastOp' = Op("HostRemovesEditor", <<>>, getInputValue(editor), "none")
    /\ KeepSendText
    /\ UNCHANGED <<platform, injectedMemoryIds, inputValueCopy, captureTimers, engineVars, rtVars>>

\* faulty variant: the editor content is captured as read, markers included
captureAndSync_Unstripped(p, ed, copy) ==
    LET extracted == IF Located(p, ed) THEN Trim(getInputValue(ed)) ELSE EmptyStr
        message == IF extracted = EmptyStr THEN copy ELSE extracted
    IN  IF Trim(message) = EmptyStr
        THEN [sent |-> NoCapture, copy |-> copy]
        ELSE [sent |-> Trim(message), copy |-> EmptyStr]

\* captureAndSync(): the userMessage handed to syncToBackground, or NoCapture,
\* and inputValueCopy afterwards
captureAndSync(p, ed, copy) ==
    LET extracted == extractUserMessage(p, ed)
        message == IF extracted = EmptyStr THEN copy ELSE extracted
    IN  IF Trim(message) = EmptyStr
        THEN [sent |-> NoCapture, copy |-> copy]
        ELSE [sent |-> Trim(message), copy |-> EmptyStr]

\* the 100 ms timer of handleSend / handleKeydown:
\* captureAndSync(); clearMemoriesFromInput()
CaptureTimer ==
    /\ captureTimers > 0
    /\ captureTimers' = captureTimers - 1
    /\ LET c == captureAndSync(platform, editor, inputValueCopy)
           r == clearMemoriesFromInput(platform, editor, injectedMemoryIds)
       IN  /\ inputValueCopy' = c.copy
           /\ editor' = r.editor
           /\ injectedMemoryIds' = r.ids
           /\ lastOp' = Sent("CaptureTimer", getInputValue(editor), c.sent)
    /\ UNCHANGED <<platform, sendText, keys, engineVars, rtVars>>

-----------------------------------------------------------------------------
(* The engine's overlay: wrappers, mount, removal, watchdog.                 *)
(*                                                                           *)
(* A wrapper is the root element createLettaButton() returns; its one child  *)
(* is the control, the button with id letta-icon-button. The floating        *)
(* wrapper carries the id letta-floating-container, the two window listeners *)
(* (scroll, resize) and the teardown closure _cleanup that removes them.     *)
(* Wrappers are the engine's own elements: the host page removes a wrapper   *)
(* as a whole, by removing or replacing the container it was placed in.      *)

NullNode == 0
NodeIds == 1..MaxNodes

\* a node id that stands for no element: not in the document, not referenced
FreshNode == [inDoc |-> FALSE, floating |-> FALSE, listening |-> FALSE]

\* an element that is out of the document, unreferenced and without window
\* listeners no longer exists for the program
Forget(ns, host) ==
    [n \in NodeIds |->
        IF n # host /\ ~ns[n].inDoc /\ ~ns[n].listening THEN FreshNode ELSE ns[n]]

\* document.getElementById("letta-icon-button")
DocHasButton(ns) == \E n \in NodeIds : ns[n].inDoc

\* document.getElementById("letta-floating-container")
DocHasFloating(ns) == \E n \in NodeIds : ns[n].inDoc /\ ns[n].floating

\* number of engine controls in the document
ControlCount(ns) == Cardinality({n \in NodeIds : ns[n].inDoc})

\* window scroll/resize listeners registered by the engine are live
ListenersLive(ns) == \E n \in NodeIds : ns[n].listening

\* the engine's overlay state, as the functions below read and write it
EngineState ==
    [nodes |-> nodes, buttonHost |-> buttonHost, retryTimers |-> retryTimers,
     buttonWatcherStarted |-> buttonWatcherStarted,
     mutationObserver |-> mutationObserver,
     buttonWatcherInterval |-> buttonWatcherInterval,
     \* whether the state is within the bounds of the model
     inBounds |-> TRUE]

\* what mountGenericButton() places the wrapper by: a send action with a
\* parent that getSendButton(platform) locates, or an anchor that
\* getAnchor(platform) locates, other than the targets the platform's own
\* mount function looks for
GenericSurface == "genericSurface"

\* placement targets each platform's mount function looks for
TargetsOf(p) ==
    CASE p = "chatgpt" -> {"plusSpan", "leadingContainer", "composerSubmit", GenericSurface}
      [] p = "claude" -> {"sendButton", "toolsTrigger", GenericSurface}
      [] p = "gemini" -> {"mainArea", "toolbox", "sendButton", GenericSurface}
      [] p = "perplexity" ->
            {"radiogroup", "controlsRow", "input", "flexAncestor", GenericSurface}
      [] OTHER -> {}

\* the composer layouts of a platform's page: no target, each target alone
\* (the input of Perplexity with and without a flex ancestor), all targets
Layouts(p) ==
    {{}} \cup {{x} : x \in TargetsOf(p) \ {"flexAncestor"}}
         \cup {{"input", x} : x \in TargetsOf(p) \cap {"flexAncestor"}}
         \cup {TargetsOf(p)}

\* mountChatGPTButton .. mountGenericButton: the strategy that places the
\* wrapper given the targets present, or "none"
MountStrategy(p, t) ==
    CASE p = "chatgpt" ->
            IF "plusSpan" \in t THEN "afterPlusSpan"
            ELSE IF "leadingContainer" \in t THEN "inLeadingContainer"
            ELSE IF "composerSubmit" \in t THEN "beforeSend"
            ELSE "none"
      [] p = "claude" ->
            IF "sendButton" \in t THEN "beforeSend"
            ELSE IF "toolsTrigger" \in t THEN "afterToolsTrigger"
            ELSE "none"
      [] p = "gemini" ->
            IF "mainArea" \in t THEN "beforeMainArea"
            ELSE IF "toolbox" \in t THEN "inToolbox"
            ELSE IF "sendButton" \in t THEN "beforeSend"
            ELSE "none"
      [] p = "perplexity" ->
            IF "radiogroup" \in t THEN "afterRadiogroup"
            ELSE IF "controlsRow" \in t THEN "inControlsRow"
            ELSE IF "input" \in t /\ "flexAncestor" \in t THEN "inFlexParent"
            ELSE IF "input" \in t THEN "floating"
            ELSE "none"
      \* mountGenericButton: getSendButton(null) and getAnchor(null) find nothing
      [] OTHER -> "none"

\* faulty variant: the wrapper is dropped from the document and the reference
\* cleared, the teardown closure is not invoked
removeUI_NoTeardown(s) ==
    LET floatConts == {n \in NodeIds : s.nodes[n].inDoc /\ s.nodes[n].floating}
        ns1 == [n \in NodeIds |->
                   IF floatConts # {} /\ n = Min(floatConts)
                   THEN [s.nodes[n] EXCEPT !.listening = FALSE, !.inDoc = FALSE]
                   ELSE s.nodes[n]]
        ns2 == [n \in NodeIds |->
                   IF n = s.buttonHost THEN [ns1[n] EXCEPT !.inDoc = FALSE]
                   ELSE ns1[n]]
    IN  [s EXCEPT !.nodes = Forget(ns2, NullNode), !.buttonHost = NullNode]

\* removeUI()
removeUI(s) ==
    LET floatConts == {n \in NodeIds : s.nodes[n].inDoc /\ s.nodes[n].floating}
        \* floatCont: _cleanup() then remove()
        ns1 == [n \in NodeIds |->
                   IF floatConts # {} /\ n = Min(floatConts)
                   THEN [s.nodes[n] EXCEPT !.listening = FALSE, !.inDoc = FALSE]
                   ELSE s.nodes[n]]
        host == s.buttonHost
        \* root = buttonHost.parentElement: _cleanup() if it has one,
        \* remove() if connected
        ns2 == [n \in NodeIds |->
                   IF n = host
                   THEN [ns1[n] EXCEPT
                            !.listening = IF ns1[n].floating THEN FALSE ELSE @,
                            !.inDoc = FALSE]
                   ELSE ns1[n]]
    IN  [s EXCEPT !.nodes = Forget(ns2, NullNode), !.buttonHost = NullNode]

\* startButtonWatcher()
startButtonWatcher(s) ==
    [s EXCEPT !.mutationObserver = @ + 1, !.buttonWatcherInterval = @ + 1]

\* the node id a newly created wrapper gets: one that stands for no element
\* and differs from the element tracked when the mount began
FreeNodes(s, tracked) == {n \in NodeIds : n # tracked /\ s.nodes[n] = FreshNode}

\* faulty variant: a failed mount sets no retry timer
Place_NoRetry(p, t, s, tracked) ==
    LET strategy == MountStrategy(p, t)
        root == [inDoc |-> TRUE, floating |-> strategy = "floating",
                 listening |-> strategy = "floating"]
        free == FreeNodes(s, tracked)
        s1 == IF strategy = "none" THEN s
              ELSE IF free = {} THEN [s EXCEPT !.inBounds = FALSE]
              ELSE [s EXCEPT !.nodes[Min(free)] = root, !.buttonHost = Min(free)]
    IN  IF ~s1.buttonWatcherStarted
        THEN startButtonWatcher([s1 EXCEPT !.buttonWatcherStarted = TRUE])
        ELSE s1

\* faulty variant: the watchdog is started by every mount
Place_AlwaysStartsWatcher(p, t, s, tracked) ==
    LET strategy == MountStrategy(p, t)
        success == strategy # "none"
        root == [inDoc |-> TRUE, floating |-> strategy = "floating",
                 listening |-> strategy = "floating"]
        free == FreeNodes(s, tracked)
        s1 == IF success
              THEN IF free = {} THEN [s EXCEPT !.inBounds = FALSE]
                   ELSE [s EXCEPT !.nodes[Min(free)] = root, !.buttonHost = Min(free)]
              ELSE IF s.retryTimers >= MaxRetryTimers THEN [s EXCEPT !.inBounds = FALSE]
              ELSE [s EXCEPT !.retryTimers = @ + 1]
    IN  startButtonWatcher([s1 EXCEPT !.buttonWatcherStarted = TRUE])

\* the part of mountButtonOnEditor() after its presence check and cleanup:
\* the platform's mount function, the retry timer, the watchdog start
Place(p, t, s, tracked) ==
    LET strategy == MountStrategy(p, t)
        success == strategy # "none"
        root == [inDoc |-> TRUE, floating |-> strategy = "floating",
                 listening |-> strategy = "floating"]
        free == FreeNodes(s, tracked)
        s1 == IF success
              THEN IF free = {} THEN [s EXCEPT !.inBounds = FALSE]
                   ELSE [s EXCEPT !.nodes[Min(free)] = root, !.buttonHost = Min(free)]
              ELSE IF s.retryTimers >= MaxRetryTimers THEN [s EXCEPT !.inBounds = FALSE]
              ELSE [s EXCEPT !.retryTimers = @ + 1]
    IN  IF ~s1.buttonWatcherStarted
        THEN startButtonWatcher([s1 EXCEPT !.buttonWatcherStarted = TRUE])
        ELSE s1

\* faulty variant: no presence check and no cleanup before placing
mountButtonOnEditor_Unguarded(p, t, s) == Place(p, t, s, s.buttonHost)

\* faulty variant: the presence check looks for the floating container only
mountButtonOnEditor_FloatingCheckOnly(p, t, s) ==
    IF DocHasFloating(s.nodes) THEN s
    ELSE Place(p, t, IF s.buttonHost # NullNode THEN removeUI(s) ELSE s, s.buttonHost)

\* faulty variant: a tracked wrapper that left the document is not removed
\* before placing
mountButtonOnEditor_KeepsZombie(p, t, s) ==
    IF DocHasButton(s.nodes) \/ DocHasFloating(s.nodes) THEN s
    ELSE Place(p, t, s, s.buttonHost)

\* mountButtonOnEditor()
mountButtonOnEditor(p, t, s) ==
    IF DocHasButton(s.nodes) \/ DocHasFloating(s.nodes) THEN s
    ELSE Place(p, t, IF s.buttonHost # NullNode THEN removeUI(s) ELSE s, s.buttonHost)

\* faulty variant: a stale reference is cleaned up instead of, not before,
\* the mount
WatcherCheck_CleansOrMounts(p, t, s) ==
    IF ~DocHasButton(s.nodes) /\ ~DocHasFloating(s.nodes)
    THEN IF s.buttonHost # NullNode THEN removeUI(s) ELSE mountButtonOnEditor(p, t, s)
    ELSE s

\* the callback shared by the watchdog's MutationObserver and its interval
WatcherCheck(p, t, s) ==
    IF ~DocHasButton(s.nodes) /\ ~DocHasFloating(s.nodes)
    THEN mountButtonOnEditor(p, t, IF s.buttonHost # NullNode THEN removeUI(s) ELSE s)
    ELSE s

\* history record of the last engine step that changed the program's state:
\* its name, whether a control was in the document before it, whether the
\* tracked wrapper was out of the document before it, whether it inserted a
\* wrapper, whether it left no window listener where there was one;
\* HostStep after a step of the host page
Step(name, s, r) ==
    [name |-> name,
     had |-> DocHasButton(s.nodes),
     lost |-> s.buttonHost # NullNode /\ ~s.nodes[s.buttonHost].inDoc,
     inserted |-> /\ r.buttonHost # NullNode
                  /\ (r.buttonHost # s.buttonHost \/ ~s.nodes[r.buttonHost].inDoc),
     tornDown |-> ListenersLive(s.nodes) /\ ~ListenersLive(r.nodes)]
NoStep == [name |-> "init", had |-> FALSE, lost |-> FALSE, inserted |-> FALSE,
           tornDown |-> FALSE]
HostStep == [NoStep EXCEPT !.name = "host"]

\* the overlay state written back
Commit(r) ==
    /\ nodes' = r.nodes
    /\ buttonHost' = r.buttonHost
    /\ retryTimers' = r.retryTimers
    /\ buttonWatcherStarted' = r.buttonWatcherStarted
    /\ mutationObserver' = r.mutationObserver
    /\ buttonWatcherInterval' = r.buttonWatcherInterval

-----------------------------------------------------------------------------
(* Actions of the engine *)

Urls == {"/c/1", "/c/2"}

\* the settings getSettings() may deliver: not configured, or configured
SettingsChoices ==
    {[configured |-> FALSE, enabledBlocks |-> {}],
     [configured |-> TRUE, enabledBlocks |-> {}],
     [configured |-> TRUE, enabledBlocks |-> {<<"facts">>}]}
NoSettings == [configured |-> FALSE, enabledBlocks |-> {}]

\* the block lists getMemoryBlocks() may deliver
FetchedBlocks == {<<>>, <<FactsBlock, BareBlock>>}

\* init() resumed after `await getSettings()`: setupUI(), then either the
\* early return (not configured), or refreshBlocks() begun; loaded = FALSE is
\* getSettings() rejecting, handled by the catch clause with setupUI()
InitSettings(loaded, choice) ==
    /\ initPc = "settings"
    /\ LET r == mountButtonOnEditor(platform, targets, EngineState)
       IN  /\ r.inBounds
           /\ Commit(r)
           /\ lastStep' = Step("InitSettings", EngineState, r)
    /\ settings' = IF loaded THEN choice ELSE settings
    /\ initPc' = IF loaded /\ choice.configured THEN "blocks" ELSE "done"
    /\ UNCHANGED <<platform, cachedBlocks, targets, urlMonitorInterval,
                   captureObserver, unloadHooked, remountTimers, href, lastUrl,
                   markerVars, rtVars>>

\* init() resumed after `await refreshBlocks()`: the blocks fetched (none
\* when the fetch failed), setupMessageCapture(),
\* setupUrlMonitoring(), cleanup registered for beforeunload
InitBlocks(fetched, blocks) ==
    /\ initPc = "blocks"
    /\ cachedBlocks' = IF fetched THEN blocks ELSE <<>>
    /\ captureObserver' = TRUE
    /\ urlMonitorInterval' = TRUE
    /\ unloadHooked' = TRUE
    /\ initPc' = "done"
    /\ lastStep' = Step("InitBlocks", EngineState, EngineState)
    /\ UNCHANGED <<platform, settings, targets, nodes, buttonHost,
                   buttonWatcherStarted, mutationObserver, buttonWatcherInterval,
                   retryTimers, remountTimers, href, lastUrl, markerVars, rtVars>>

\* an overlay step: the overlay state goes from EngineState to r
OverlayStep(name, r) ==
    /\ r.inBounds
    /\ Commit(r)
    /\ lastStep' = IF r = EngineState THEN lastStep ELSE Step(name, EngineState, r)
    /\ UNCHANGED <<platform, initPc, settings, cachedBlocks, targets,
                   urlMonitorInterval, captureObserver, unloadHooked,
                   remountTimers, href, lastUrl, markerVars, rtVars>>

\* the watchdog's MutationObserver callback (the host page mutates its
\* document at any time)
ObserverCallback ==
    /\ mutationObserver > 0
    /\ OverlayStep("ObserverCallback", WatcherCheck(platform, targets, EngineState))

\* the watchdog's 2000 ms interval tick
IntervalTick ==
    /\ buttonWatcherInterval > 0
    /\ OverlayStep("IntervalTick", WatcherCheck(platform, targets, EngineState))

\* a retry timer set by a failed mount fires: mountButtonOnEditor()
RetryTimer ==
    /\ retryTimers > 0
    /\ OverlayStep("RetryTimer",
           mountButtonOnEditor(platform, targets,
                               [EngineState EXCEPT !.retryTimers = @ - 1]))

\* faulty variant: the set of injected ids survives the reset
resetInjectionState_Keeps(ids) == ids

\* memory-injection.ts resetInjectionState()
resetInjectionState(ids) == {}

\* the navigation monitor's 500 ms poll: on a changed address lastUrl is
\* updated, removeUI(), resetInjectionState(), the re-mount timer is set
NavPoll ==
    /\ urlMonitorInterval
    /\ IF href # lastUrl
       THEN /\ remountTimers < MaxRemountTimers
            /\ lastUrl' = href
            /\ LET r == removeUI(EngineState)
               IN  /\ Commit(r)
                   /\ lastStep' = Step("NavPoll", EngineState, r)
            /\ injectedMemoryIds' = resetInjectionState(injectedMemoryIds)
            /\ remountTimers' = remountTimers + 1
       ELSE UNCHANGED <<nodes, buttonHost, retryTimers, buttonWatcherStarted,
                       mutationObserver, buttonWatcherInterval, lastUrl,
                       injectedMemoryIds, remountTimers, lastStep>>
    /\ UNCHANGED <<platform, initPc, settings, cachedBlocks, targets,
                   urlMonitorInterval, captureObserver, unloadHooked, href,
                   editor, inputValueCopy, sendText, captureTimers, keys, lastOp, rtVars>>

\* the re-mount timer set by the navigation monitor fires:
\* mountButtonOnEditor(); addSendListeners() (which marks the send action and
\* the editor of the page and writes none of the variables here)
RemountTimer ==
    /\ remountTimers > 0
    /\ remountTimers' = remountTimers - 1
    /\ LET r == mountButtonOnEditor(platform, targets, EngineState)
       IN  /\ r.inBounds
           /\ Commit(r)
           /\ lastStep' = Step("RemountTimer", EngineState, r)
    /\ UNCHANGED <<platform, initPc, settings, cachedBlocks, targets,
                   urlMonitorInterval, captureObserver, unloadHooked, href,
                   lastUrl, markerVars, rtVars>>

\* the interval or observer a module variable refers to is cleared or
\* disconnected: one fewer is live
Released(count) == IF count > 0 THEN count - 1 ELSE 0

\* cleanup(), the beforeunload handler: intervals cleared, observers
\* disconnected, removeUI(); pending timeouts are left pending
Cleanup ==
    /\ unloadHooked
    /\ urlMonitorInterval' = FALSE
    /\ captureObserver' = FALSE
    /\ LET r == removeUI([EngineState EXCEPT !.buttonWatcherInterval = Released(@),
                                             !.mutationObserver = Released(@)])
       IN  /\ Commit(r)
           /\ lastStep' = Step("Cleanup", EngineState, r)
    /\ UNCHANGED <<platform, initPc, settings, cachedBlocks, targets,
                   unloadHooked, remountTimers, href, lastUrl, markerVars, rtVars>>

\* the click handler of the control, injectMemories() of the engine, with
\* blocks cached: the enabled blocks are spliced into the editor
ClickControl ==
    /\ DocHasButton(nodes)
    /\ cachedBlocks # <<>>
    /\ LET enabledLabels == settings.enabledBlocks
           blocksToInject ==
               IF enabledLabels # {}
               THEN SelectSeq(cachedBlocks, LAMBDA b : b.label \in enabledLabels)
               ELSE cachedBlocks
           r == IF blocksToInject = <<>>
                THEN Outcome(FALSE, editor, injectedMemoryIds, <<>>)
                ELSE injectMemories(platform, editor, injectedMemoryIds, blocksToInject)
       IN  /\ Len(getInputValue(r.editor)) <= MaxContentLen
           /\ editor' = r.editor
           /\ injectedMemoryIds' = r.ids
    /\ lastStep' = Step("ClickControl", EngineState, EngineState)
    /\ UNCHANGED <<platform, initPc, settings, cachedBlocks, targets, nodes,
                   buttonHost, buttonWatcherStarted, mutationObserver,
                   buttonWatcherInterval, urlMonitorInterval, captureObserver,
                   unloadHooked, retryTimers, remountTimers, href, lastUrl,
                   inputValueCopy, sendText, captureTimers, keys, lastOp, rtVars>>

\* the host page navigates in place (history API): the address changes
HostNavigates(u) ==
    /\ u # href
    /\ href' = u
    /\ lastStep' = HostStep
    /\ UNCHANGED <<platform, initPc, settings, cachedBlocks, targets, nodes,
                   buttonHost, buttonWatcherStarted, mutationObserver,
                   buttonWatcherInterval, urlMonitorInterval, captureObserver,
                   unloadHooked, retryTimers, remountTimers, lastUrl, 
                   markerVars, rtVars>>

\* the host page removes (or replaces) the container a wrapper sits in
HostRemovesWrapper(n) ==
    /\ nodes[n].inDoc
    /\ nodes' = Forget([nodes EXCEPT ![n].inDoc = FALSE], buttonHost)
    /\ lastStep' = HostStep
    /\ UNCHANGED <<platform, initPc, settings, cachedBlocks, targets,
                   buttonHost, buttonWatcherStarted, mutationObserver,
                   buttonWatcherInterval, urlMonitorInterval, captureObserver,
                   unloadHooked, retryTimers, remountTimers, href, lastUrl,
                    markerVars, rtVars>>

\* the host page re-renders its composer: the placement targets change
HostChangesLayout(t) ==
    /\ t # targets
    /\ targets' = t
    /\ lastStep' = HostStep
    /\ UNCHANGED <<platform, initPc, settings, cachedBlocks, nodes,
                   buttonHost, buttonWatcherStarted, mutationObserver,
                   buttonWatcherInterval, urlMonitorInterval, captureObserver,
                   unloadHooked, retryTimers, remountTimers, href, lastUrl,
                    markerVars, rtVars>>

\* the engine before init() has resumed: nothing mounted, nothing started
EngineIdle ==
    /\ initPc = "done"
    /\ settings = NoSettings
    /\ cachedBlocks = <<>>
    /\ targets = {}
    /\ nodes = [n \in NodeIds |-> FreshNode]
    /\ buttonHost = NullNode
    /\ buttonWatcherStarted = FALSE
    /\ mutationObserver = 0
    /\ buttonWatcherInterval = 0
    /\ urlMonitorInterval = FALSE
    /\ captureObserver = FALSE
    /\ unloadHooked = FALSE
    /\ retryTimers = 0
    /\ remountTimers = 0
    /\ href = "/c/1"
    /\ lastUrl = "/c/1"
    /\ lastStep = NoStep

-----------------------------------------------------------------------------
(* Surface locator (dom-handlers.ts): getTextarea, getSendButton, getAnchor  *)
(*                                                                           *)
(* The document is given by what each lookup finds: "absent" (no element     *)
(* matches), "visible" or "hidden" (the first matching element, passing or   *)
(* failing isVisible), "throws" (querySelector rejects the selector).        *)

Candidates == {"absent", "hidden", "visible", "throws"}

TEXTAREA_SELECTORS(p) ==
    CASE p = "chatgpt" ->
            <<"#prompt-textarea",
              "div[contenteditable=\"true\"][data-id=\"root\"]",
              "div[contenteditable=\"true\"]",
              "textarea">>
      [] p = "claude" ->
            <<"div[contenteditable=\"true\"].ProseMirror",
              "div[contenteditable=\"true\"]",
              "textarea",
              "p[data-placeholder=\"How can I help you today?\"]",
              "p[data-placeholder=\"Reply to Claude...\"]">>
      [] p = "gemini" ->
            <<"rich-textarea .ql-editor[contenteditable=\"true\"]",
              "rich-textarea .ql-editor.textarea",
              ".ql-editor[aria-label=\"Enter a prompt here\"]",
              ".ql-editor.textarea.new-input-ui",
              ".text-input-field_textarea .ql-editor",
              "div[contenteditable=\"true\"][role=\"textbox\"][aria-label=\"Enter a prompt here\"]">>
      [] p = "perplexity" ->
            <<"div#ask-input[contenteditable=\"true\"]",
              "textarea#ask-input",
              "div[contenteditable=\"true\"][aria-placeholder^=\"Ask\"]",
              "textarea[placeholder^=\"Ask\"]",
              "textarea[placeholder^=\"Ask a follow-up\"]",
              "div[contenteditable=\"true\"]",
              "textarea">>
      [] OTHER -> <<>>

SEND_BUTTON_SELECTORS(p) ==
    CASE p = "chatgpt" ->
            <<"button[data-testid=\"send-button\"]",
              "button[aria-label=\"Send prompt\"]",
              "form button[type=\"submit\"]">>
      [] p = "claude" ->
            <<"button[aria-label=\"Send Message\"]",
              "button[aria-label=\"Send message\"]",
              "fieldset button:not([aria-label])",
              "button:has(svg[viewBox=\"0 0 256 256\"])">>
      [] p = "gemini" ->
            <<"button[aria-label=\"Send message\"]",
              "button[data-testid=\"send-button\"]",
              "button[type=\"submit\"]:not([aria-label*=\"attachment\"])",
              ".send-button",
              "button[aria-label*=\"Send\"]",
              "button[title*=\"Send\"]">>
      [] p = "perplexity" ->
            <<"button[data-cy=\"ai-prompt-submit\"]",
              "button[data-cy=\"ai-chat-send-button\"]",
              "button[aria-label=\"Send\"]",
              "button[type=\"button\"][aria-label=\"Send\"]",
              "button[aria-label=\"Submit\"]",
              "button[type=\"submit\"]">>
      [] OTHER -> <<>>

FALLBACK_ANCHORS(p) ==
    CASE p = "chatgpt" ->
            <<"form [data-testid=\"composer-trailing-actions\"]",
              "form .composer-trailing-actions",
              "form textarea",
              "main form textarea">>
      [] p = "claude" ->
            <<"#input-tools-menu-trigger", "button[aria-label*=\"Send\" i]", "fieldset">>
      [] p = "gemini" ->
            <<"toolbox-drawer .toolbox-drawer-container",
              ".input-area-container",
              ".text-input-field">>
      [] p = "perplexity" -> <<"button[aria-label=\"Submit\"]", "form">>
      [] OTHER -> <<>>

\* what a locator returns: null, or an element with the way it was found
Absent == [found |-> FALSE, via |-> "none", rule |-> 0, visible |-> FALSE]
Found(via, rule, visible) ==
    [found |-> TRUE, via |-> via, rule |-> rule, visible |-> visible]

\* document.querySelector(selectors[i]) with isVisible of the element found
Lookup(found, i) == IF i \in DOMAIN found THEN found[i] ELSE "absent"

\* isVisible(el) of an element in the given state
isVisible(state) == state = "visible"

\* faulty variant: the first element found is returned, visible or not
FirstVisible_AnyElement(selectors, found, via, i) ==
    LET present == {j \in i..Len(selectors) : Lookup(found, j) \in {"visible", "hidden"}}
    IN  IF present = {} THEN Absent
        ELSE Found(via, Min(present), isVisible(Lookup(found, Min(present))))

\* the loop shared by the locators, from rule i on: the first rule whose
\* lookup does not throw and finds a visible element
RECURSIVE FirstVisible(_, _, _, _)
FirstVisible(selectors, found, via, i) ==
    IF i > Len(selectors) THEN Absent
    ELSE IF Lookup(found, i) = "throws" THEN FirstVisible(selectors, found, via, i + 1)
    ELSE IF Lookup(found, i) # "absent" /\ isVisible(Lookup(found, i))
         THEN Found(via, i, TRUE)
    ELSE FirstVisible(selectors, found, via, i + 1)

\* getTextarea(platform)
getTextarea(p, dom) ==
    IF p = NoPlatform THEN Absent
    ELSE FirstVisible(TEXTAREA_SELECTORS(p), dom.editorRules, "selector", 1)

\* getSendButton(platform)
getSendButton(p, dom) ==
    IF p = NoPlatform THEN Absent
    ELSE FirstVisible(SEND_BUTTON_SELECTORS(p), dom.sendRules, "selector", 1)

\* deriveAnchor(platform, editor): the toolbar of ChatGPT's form or Gemini's
\* toolbox when there is one, else the editor's form or parent element; the
\* state of the element derived
deriveAnchor(p, dom) ==
    IF p \in {"chatgpt", "gemini"} /\ dom.toolbar # "absent" THEN dom.toolbar
    ELSE dom.container

\* getAnchor(platform)
getAnchor(p, dom) ==
    IF p = NoPlatform THEN Absent
    ELSE LET edEl == getTextarea(p, dom)
             fallback == FirstVisible(FALLBACK_ANCHORS(p), dom.anchorRules, "fallback", 1)
         IN  IF edEl.found /\ isVisible(deriveAnchor(p, dom))
             THEN Found("derived", 0, TRUE)
             ELSE IF fallback.found THEN fallback
             \* editor.closest("form") || editor.parentElement, as it is
             ELSE IF edEl.found THEN Found("parent", 0, isVisible(dom.container))
             ELSE Absent

\* a document in which no lookup finds anything
NoRules == [i \in 1..MaxRules |-> "absent"]
EmptyDom ==
    [editorRules |-> NoRules, sendRules |-> NoRules, anchorRules |-> NoRules,
     toolbar |-> "absent", container |-> "visible"]

-----------------------------------------------------------------------------
(* Recent context (universal-injector.ts getRecentMessages).                 *)
(*                                                                           *)
(* The page's message elements are given in document order. An element is    *)
(*   matches  which of the platform's two selectors it matches: "user",      *)
(*            "assistant" or "both"                                          *)
(*   body     the length of its textContent without surrounding blanks (0    *)
(*            for an element that is empty or holds blanks only)             *)
(* A text is modelled by its length; the entry of the context keeps the      *)
(* position of the element it was read from.                                 *)

\* getRecentMessages(2) in captureAndSync
RecentCount == 2
\* content.slice(0, 500)
ContentCap == 500

Element(matches, body) == [matches |-> matches, body |-> body]

\* el.textContent.trim().length
TrimmedLength(el) == el.body

\* Array.from(document.querySelectorAll(selector)), tagged with the role: the
\* positions of the elements the selector matches, in document order
RECURSIVE ElementsMatching(_, _, _)
ElementsMatching(page, role, i) ==
    IF i > Len(page) THEN <<>>
    ELSE (IF page[i].matches \in {role, "both"} THEN <<[pos |-> i, role |-> role]>> ELSE <<>>)
         \o ElementsMatching(page, role, i + 1)

\* faulty variant: the user elements first, then the assistant elements
SortByDomOrder_Unsorted(all) == all

\* allElements.sort(by compareDocumentPosition): a stable sort by position
RECURSIVE SortByDomOrder(_)
SortByDomOrder(all) ==
    IF all = <<>> THEN <<>>
    ELSE LET first == Min({i \in 1..Len(all) : \A j \in 1..Len(all) : all[i].pos <= all[j].pos})
         IN  <<all[first]>>
             \o SortByDomOrder(SubSeq(all, 1, first - 1) \o SubSeq(all, first + 1, Len(all)))

\* Array.prototype.slice(-count)
LastN(seq, count) ==
    IF Len(seq) <= count THEN seq ELSE SubSeq(seq, Len(seq) - count + 1, Len(seq))

\* the loop over the recent elements: an entry for each non-empty content,
\* cut to the cap
RECURSIVE Entries(_, _)
Entries(page, recent) ==
    IF recent = <<>> THEN <<>>
    ELSE LET content == TrimmedLength(page[recent[1].pos])
         IN  (IF content # 0
              THEN <<[role |-> recent[1].role, pos |-> recent[1].pos,
                      length |-> IF content > ContentCap THEN ContentCap ELSE content]>>
              ELSE <<>>)
             \o Entries(page, Tail(recent))

\* getRecentMessages(count)
getRecentMessages(p, page, count) ==
    IF p = NoPlatform THEN <<>>
    ELSE LET allElements == ElementsMatching(page, "user", 1)
                            \o ElementsMatching(page, "assistant", 1)
         IN  Entries(page, LastN(SortByDomOrder(allElements), count))

RecIdle ==
    /\ recPc = "idle"
    /\ recPage = <<>>
    /\ recOut = <<>>

MaxElements == 3
ElementIds == 1..MaxElements

\* nothing was saved to the extension storage since init() read the settings
NotSaved == [configured |-> FALSE, enabledBlocks |-> {"not saved"}]

\* the last remote call: which call, whether it failed, the toasts
\* (showToast types) shown for it, in order, and the pending
\* setTimeout(refreshBlocks, 1000) it left
RemoteCall(call, failed, toasts, timers) ==
    [call |-> call, failed |-> failed, toasts |-> toasts, refreshTimers |-> timers]
NoCall == RemoteCall("none", FALSE, <<>>, 0)

StorageIdle == savedSettings = NotSaved /\ remote = NoCall

\* an element the host page has just created: no data attribute of the
\* engine, no listener
NewElement == [dataset |-> {}, click |-> <<>>, keydown |-> <<>>]

\* no capture listener attached, no send action and no editor on the page
CapIdle ==
    /\ capPc = "init"
    /\ capDom = [sendButton |-> NullNode, textarea |-> NullNode,
                 els |-> [e \in ElementIds |-> NewElement],
                 last |-> [name |-> "host", called |-> FALSE, had |-> FALSE]]

SYNC_COOLDOWN_MS == 2000

\* lastCapturedHash = null
NoHash == <<"null">>

\* the service worker as it starts: lastSyncTime = 0, lastCapturedHash =
\* null, no handleSync call in flight, nothing submitted; the clock
\* (Date.now()) is far from 0
BgStart ==
    [lastSyncTime |-> 0, lastCapturedHash |-> NoHash, clock |-> SYNC_COOLDOWN_MS,
     calls |-> <<>>, submitted |-> <<>>, emitted |-> NoCapture,
     last |-> [name |-> "start", before |-> NoHash]]

\* the extension storage before anything was saved, no saveSettings call in
\* flight
NoStore == [stored |-> [f \in {} |-> ""], calls |-> <<>>, done |-> <<>>]

\* no page address resolved
NoDetect == [pc |-> "idle", url |-> <<>>, content |-> NoPlatform,
             background |-> NoPlatform]

BgIdle == bg = BgStart /\ store = NoStore /\ det = NoDetect

\* no write asked for
NoWrite == [editor |-> EmptyEditor("none"), events |-> <<>>]
WrIdle ==
    /\ wrPc = "idle"
    /\ wrIn = [el |-> EmptyEditor("none"), value |-> EmptyStr, edited |-> FALSE]
    /\ wrOut = NoWrite

LocIdle ==
    /\ locPc = "idle"
    /\ locSurface = "editor"
    /\ locDom = EmptyDom
    /\ locResult = Absent

RtIdle == /\ rtPc = "idle" /\ rtBlocks = <<>> /\ rtText = EmptyStr
          /\ rtContent = EmptyStr /\ rtOut = EmptyStr
          /\ LocIdle
          /\ RecIdle
          /\ StorageIdle
          /\ CapIdle
          /\ WrIdle
          /\ BgIdle

InitMarker ==
    /\ \E cfg \in EditorConfigs :
          /\ platform = cfg[1]
          /\ editor = EmptyEditor(cfg[2])
    /\ injectedMemoryIds = {}
    /\ inputValueCopy = EmptyStr
    /\ sendText = EmptyStr
    /\ captureTimers = 0
    /\ keys = 0
    /\ lastOp = NoOp
    /\ EngineIdle
    /\ RtIdle

NextMarker ==
    \/ \E memories \in BlockLists : SpliceIn(memories)
    \/ \E memory \in Blocks : AddOne(memory)
    \/ \E c \in UserChars : TypeChar(c)
    \/ ShiftEnter
    \/ Backspace
    \/ PressEnter
    \/ ClickSend
    \/ HostClearsEditor
    \/ HostRemovesEditor
    \/ CaptureTimer

SpecMarker == InitMarker /\ [][NextMarker]_vars

\* the capture path with the history of each send: the text the editor held
\* when the send was detected is kept until the timer of the send has run
NextSend ==
    \/ \E memories \in BlockLists : SpliceIn(memories)
    \/ \E c \in UserChars : TypeChar(c)
    \/ ShiftEnter
    \/ Backspace
    \/ TrackedEnter
    \/ TrackedSend
    \/ HostClearsEditor
    \/ HostRemovesEditor
    \/ CaptureTimer

SpecSend == InitMarker /\ [][NextSend]_vars

-----------------------------------------------------------------------------
(* The round trip of the two pure functions: strip-out applied to the        *)
(* formatted block followed by a text.                                       *)

\* longest text T drawn
MaxTextLen == 2

RtChars == {"q", " ", NL}
RtTexts == UNION {[1..n -> RtChars] : n \in 0..MaxTextLen}
RtBlockLists ==
    BlockLists \cup {<<BareBlock>>, <<QuotingBlock>>, <<FactsBlock, QuotingBlock>>,
                     <<HeaderQuotingBlock>>, <<HeaderQuotingBlock, FactsBlock>>}

MarkerIdle ==
    /\ platform = NoPlatform
    /\ editor = EmptyEditor("none")
    /\ injectedMemoryIds = {}
    /\ inputValueCopy = EmptyStr
    /\ sendText = EmptyStr
    /\ captureTimers = 0
    /\ keys = 0
    /\ lastOp = NoOp

InitRoundTrip ==
    /\ MarkerIdle
    /\ EngineIdle
    /\ rtPc = "input"
    /\ rtBlocks \in RtBlockLists
    /\ rtText \in RtTexts
    /\ rtContent = EmptyStr
    /\ rtOut = EmptyStr
    /\ LocIdle
    /\ RecIdle
    /\ StorageIdle
    /\ CapIdle
    /\ WrIdle
    /\ BgIdle

\* the content spliceIn(B) followed by T
RtSpliceIn ==
    /\ rtPc = "input"
    /\ rtContent' = formatMemoriesForInjection(rtBlocks) \o rtText
    /\ rtPc' = "spliced"
    /\ UNCHANGED <<platform, engineVars, markerVars, rtBlocks, rtText, rtOut, locVars,
                   recVars, storageVars, capVars, wrVars, bgVars>>

\* stripOut applied to it
RtStripOut ==
    /\ rtPc = "spliced"
    /\ rtOut' = StripMarkers(rtContent)
    /\ rtPc' = "stripped"
    /\ UNCHANGED <<platform, engineVars, markerVars, rtBlocks, rtText, rtContent,
                   locVars, recVars, storageVars, capVars, wrVars, bgVars>>

NextRoundTrip == RtSpliceIn \/ RtStripOut

SpecRoundTrip == InitRoundTrip /\ [][NextRoundTrip]_vars

-----------------------------------------------------------------------------
(* Strip-out applied to arbitrary contents: texts in which the markers occur *)
(* any number of times, in any order.                                        *)

\* longest content drawn
MaxStripLen == 4

StripAtoms == MEMORY_HEADER \o MEMORY_FOOTER \o <<"q", " ">>
StripContents ==
    UNION {{[i \in 1..n |-> StripAtoms[f[i]]] : f \in [1..n -> 1..Len(StripAtoms)]}
              : n \in 0..MaxStripLen}

InitStrip ==
    /\ MarkerIdle
    /\ EngineIdle
    /\ rtPc = "spliced"
    /\ rtBlocks = <<>>
    /\ rtText = EmptyStr
    /\ rtContent \in StripContents
    /\ rtOut = EmptyStr
    /\ LocIdle
    /\ RecIdle
    /\ StorageIdle
    /\ CapIdle
    /\ WrIdle
    /\ BgIdle

SpecStrip == InitStrip /\ [][RtStripOut]_vars

-----------------------------------------------------------------------------
(* The locators applied to documents: for the editor and the send action     *)
(* every outcome of the first MaxRules lookups of the list; for the anchor,  *)
(* an editor found by the first rule or none, with every state of the        *)
(* toolbar, of the editor's form or parent, and of the fallback lookups.     *)

RuleFixtures == [1..MaxRules -> Candidates]
EditorForAnchor ==
    {NoRules} \cup {[NoRules EXCEPT ![1] = c] : c \in {"visible", "hidden"}}

Fixtures(surface) ==
    CASE surface = "editor" -> {[EmptyDom EXCEPT !.editorRules = r] : r \in RuleFixtures}
      [] surface = "send" -> {[EmptyDom EXCEPT !.sendRules = r] : r \in RuleFixtures}
      [] surface = "anchor" ->
            {[editorRules |-> ed, sendRules |-> NoRules, anchorRules |-> r,
              toolbar |-> t, container |-> c] :
                ed \in EditorForAnchor, r \in RuleFixtures,
                t \in {"absent", "visible", "hidden"}, c \in {"visible", "hidden"}}

InitLocate ==
    /\ platform \in Platforms \cup {NoPlatform}
    /\ editor = EmptyEditor("none")
    /\ injectedMemoryIds = {}
    /\ inputValueCopy = EmptyStr
    /\ sendText = EmptyStr
    /\ captureTimers = 0
    /\ keys = 0
    /\ lastOp = NoOp
    /\ EngineIdle
    /\ rtPc = "idle" /\ rtBlocks = <<>> /\ rtText = EmptyStr
    /\ rtContent = EmptyStr /\ rtOut = EmptyStr
    /\ locPc = "input"
    /\ locSurface \in {"editor", "send", "anchor"}
    /\ locDom \in Fixtures(locSurface)
    /\ locResult = Absent
    /\ RecIdle
    /\ StorageIdle
    /\ CapIdle
    /\ WrIdle
    /\ BgIdle

\* locate(platform, surfaceKind)
Locate ==
    /\ locPc = "input"
    /\ locResult' = CASE locSurface = "editor" -> getTextarea(platform, locDom)
                       [] locSurface = "send" -> getSendButton(platform, locDom)
                       [] locSurface = "anchor" -> getAnchor(platform, locDom)
    /\ locPc' = "done"
    /\ UNCHANGED <<platform, engineVars, markerVars, rtPc, rtBlocks, rtText,
                   rtContent, rtOut, locSurface, locDom, recVars, storageVars, capVars, wrVars, bgVars>>

SpecLocate == InitLocate /\ [][Locate]_vars

-----------------------------------------------------------------------------
(* getRecentMessages applied to pages of up to MaxMessages message elements: *)
(* empty, short, exactly at the cap and over the cap, each matched by one    *)
(* selector or by both.                                                      *)

Elements ==
    {Element(m, b) : m \in {"user", "assistant", "both"},
                     b \in {0, 1, ContentCap, ContentCap + 1}}

Pages == UNION {[1..n -> Elements] : n \in 0..MaxMessages}

InitRecent ==
    /\ platform \in Platforms \cup {NoPlatform}
    /\ editor = EmptyEditor("none")
    /\ injectedMemoryIds = {}
    /\ inputValueCopy = EmptyStr
    /\ sendText = EmptyStr
    /\ captureTimers = 0
    /\ keys = 0
    /\ lastOp = NoOp
    /\ EngineIdle
    /\ rtPc = "idle" /\ rtBlocks = <<>> /\ rtText = EmptyStr
    /\ rtContent = EmptyStr /\ rtOut = EmptyStr
    /\ LocIdle
    /\ recPc = "input"
    /\ recPage \in Pages
    /\ recOut = <<>>
    /\ StorageIdle
    /\ CapIdle
    /\ WrIdle
    /\ BgIdle

\* captureAndSync: const context = getRecentMessages(2)
ReadContext ==
    /\ recPc = "input"
    /\ recOut' = getRecentMessages(platform, recPage, RecentCount)
    /\ recPc' = "done"
    /\ UNCHANGED <<platform, engineVars, markerVars, rtPc, rtBlocks, rtText,
                   rtContent, rtOut, locVars, recPage, storageVars, capVars, wrVars, bgVars>>

SpecRecent == InitRecent /\ [][ReadContext]_vars

-----------------------------------------------------------------------------
(* The engine from document load on: init(), the overlay, the watchdog, the  *)
(* navigation monitor, page unload.                                          *)

\* the editor each platform's page is given here
EditorKindOf(p) ==
    CASE p = "chatgpt" -> "ce"
      [] p = "claude" -> "pm"
      [] p = "gemini" -> "ce"
      [] p = "perplexity" -> "textarea"
      [] OTHER -> "none"

\* the state when init() has run up to `await getSettings()`, or has
\* returned because detectPlatform() found no supported platform
Init ==
    /\ platform \in Platforms \cup {NoPlatform}
    /\ initPc = IF platform = NoPlatform THEN "done" ELSE "settings"
    /\ settings = NoSettings
    /\ cachedBlocks = <<>>
    /\ targets \in Layouts(platform)
    /\ nodes = [n \in NodeIds |-> FreshNode]
    /\ buttonHost = NullNode
    /\ buttonWatcherStarted = FALSE
    /\ mutationObserver = 0
    /\ buttonWatcherInterval = 0
    /\ urlMonitorInterval = FALSE
    /\ captureObserver = FALSE
    /\ unloadHooked = FALSE
    /\ retryTimers = 0
    /\ remountTimers = 0
    /\ href = "/c/1"
    /\ lastUrl = href
    /\ lastStep = NoStep
    /\ editor = EmptyEditor(EditorKindOf(platform))
    /\ injectedMemoryIds = {}
    /\ inputValueCopy = EmptyStr
    /\ sendText = EmptyStr
    /\ captureTimers = 0
    /\ keys = 0
    /\ lastOp = NoOp
    /\ RtIdle

Next ==
    \/ \E loaded \in BOOLEAN, choice \in SettingsChoices : InitSettings(loaded, choice)
    \/ \E fetched \in BOOLEAN, blocks \in FetchedBlocks : InitBlocks(fetched, blocks)
    \/ ObserverCallback
    \/ IntervalTick
    \/ RetryTimer
    \/ NavPoll
    \/ RemountTimer
    \/ Cleanup
    \/ ClickControl
    \/ \E u \in Urls : HostNavigates(u)
    \/ \E n \in NodeIds : HostRemovesWrapper(n)
    \/ \E t \in Layouts(platform) : HostChangesLayout(t)

Spec == Init /\ [][Next]_vars

-----------------------------------------------------------------------------
(* The mount and its retries alone, with the timers of the page's event loop *)
(* fair: a timer set with setTimeout fires once its delay has passed, so a   *)
(* pending retry is not postponed for ever.                                  *)

NextRetry ==
    \/ \E loaded \in BOOLEAN, choice \in SettingsChoices : InitSettings(loaded, choice)
    \/ \E fetched \in BOOLEAN, blocks \in FetchedBlocks : InitBlocks(fetched, blocks)
    \/ ObserverCallback
    \/ IntervalTick
    \/ RetryTimer
    \/ Cleanup
    \/ \E n \in NodeIds : HostRemovesWrapper(n)
    \/ \E t \in Layouts(platform) : HostChangesLayout(t)

SpecRetry == Init /\ [][NextRetry]_vars /\ WF_vars(RetryTimer)

-----------------------------------------------------------------------------
(* The settings: read by init(), saved again from the popup while the page   *)
(* is open, used by the click on the control.                                *)

\* the popup saves settings to the extension storage (saveSettings)
PopupSavesSettings(choice) ==
    /\ initPc = "done"
    /\ choice.configured
    /\ choice # savedSettings
    /\ savedSettings' = choice
    /\ lastStep' = HostStep
    /\ UNCHANGED <<platform, initPc, settings, cachedBlocks, targets, nodes,
                   buttonHost, buttonWatcherStarted, mutationObserver,
                   buttonWatcherInterval, urlMonitorInterval, captureObserver,
                   unloadHooked, retryTimers, remountTimers, href, lastUrl,
                   markerVars, rtPc, rtBlocks, rtText, rtContent, rtOut, locVars,
                   recVars, remote, capVars, wrVars, bgVars>>

NextSettings ==
    \/ \E loaded \in BOOLEAN, choice \in SettingsChoices : InitSettings(loaded, choice)
    \/ \E fetched \in BOOLEAN, blocks \in FetchedBlocks : InitBlocks(fetched, blocks)
    \/ ClickControl
    \/ \E choice \in SettingsChoices : PopupSavesSettings(choice)
    \/ \E t \in Layouts(platform) : HostChangesLayout(t)

SpecSettings == Init /\ [][NextSettings]_vars

-----------------------------------------------------------------------------
(* The remote calls: the block fetch (refreshBlocks) made by the click on    *)
(* the control and by the timer a captured message sets, and the capture     *)
(* submit (syncToBackground, answered by the background's handleSync).       *)

MaxRefreshTimers == 1

\* LettaAPIService.getMemoryBlocks(): the blocks of the agent; a failed
\* request is caught and answered with no blocks
getMemoryBlocks(fetched, blocks) == IF fetched THEN blocks ELSE <<>>

\* refreshBlocks(): the cache after the fetch, the blocks getMemoryBlocks()
\* returned (its catch branch, which keeps the cache, is not reached:
\* getMemoryBlocks() does not throw)
refreshBlocks(cache, fetched, blocks) == getMemoryBlocks(fetched, blocks)

\* the answers to chrome.runtime.sendMessage for a capture: handleSync
\* captured the message, captureMessages threw in handleSync (answered with
\* success: false), or the message did not reach the background (lastError)
SubmitOutcomes == {"captured", "rejected", "lastError"}

\* the click handler of the control with an empty cache: a toast,
\* refreshBlocks(), then the click handler again when blocks have arrived,
\* or an error toast
ClickControlEmptyCache(fetched, blocks) ==
    /\ DocHasButton(nodes)
    /\ cachedBlocks = <<>>
    /\ cachedBlocks' = refreshBlocks(cachedBlocks, fetched, blocks)
    /\ LET enabledLabels == settings.enabledBlocks
           blocksToInject ==
               IF enabledLabels # {}
               THEN SelectSeq(cachedBlocks', LAMBDA b : b.label \in enabledLabels)
               ELSE cachedBlocks'
           r == IF blocksToInject = <<>>
                THEN Outcome(FALSE, editor, injectedMemoryIds, <<>>)
                ELSE injectMemories(platform, editor, injectedMemoryIds, blocksToInject)
           retried == IF cachedBlocks' = <<>> THEN <<"error">>
                      ELSE IF blocksToInject = <<>> THEN <<"info">>
                      ELSE IF r.ret THEN <<"success">> ELSE <<"error">>
       IN  /\ Len(getInputValue(r.editor)) <= MaxContentLen
           /\ editor' = r.editor
           /\ injectedMemoryIds' = r.ids
           /\ remote' = RemoteCall("fetch", ~fetched, <<"info">> \o retried,
                                   remote.refreshTimers)
    /\ lastStep' = Step("ClickControl", EngineState, EngineState)
    /\ UNCHANGED <<platform, initPc, settings, targets, nodes,
                   buttonHost, buttonWatcherStarted, mutationObserver,
                   buttonWatcherInterval, urlMonitorInterval, captureObserver,
                   unloadHooked, retryTimers, remountTimers, href, lastUrl,
                   inputValueCopy, sendText, captureTimers, keys, lastOp,
                   rtPc, rtBlocks, rtText, rtContent, rtOut, locVars, recVars,
                   savedSettings, capVars, wrVars, bgVars>>

\* syncToBackground(userMessage, context) with the callback of sendMessage:
\* an error is logged; after a captured message the refresh timer is set
SyncToBackground(outcome) ==
    /\ initPc = "done"
    /\ captureObserver
    /\ outcome = "captured" => remote.refreshTimers < MaxRefreshTimers
    /\ remote' = RemoteCall("submit", outcome # "captured", <<>>,
                            IF outcome = "captured" THEN remote.refreshTimers + 1
                            ELSE remote.refreshTimers)
    /\ UNCHANGED <<platform, engineVars, markerVars, rtPc, rtBlocks, rtText,
                   rtContent, rtOut, locVars, recVars, savedSettings, capVars, wrVars, bgVars>>

\* the timer set after a captured message fires: refreshBlocks()
RefreshTimer(fetched, blocks) ==
    /\ remote.refreshTimers > 0
    /\ cachedBlocks' = refreshBlocks(cachedBlocks, fetched, blocks)
    /\ remote' = RemoteCall("refresh", ~fetched, <<>>, remote.refreshTimers - 1)
    /\ lastStep' = Step("RefreshTimer", EngineState, EngineState)
    /\ UNCHANGED <<platform, initPc, settings, targets, nodes,
                   buttonHost, buttonWatcherStarted, mutationObserver,
                   buttonWatcherInterval, urlMonitorInterval, captureObserver,
                   unloadHooked, retryTimers, remountTimers, href, lastUrl,
                   markerVars, rtPc, rtBlocks, rtText, rtContent, rtOut, locVars,
                   recVars, savedSettings, capVars, wrVars, bgVars>>

NextRemote ==
    \/ \E loaded \in BOOLEAN, choice \in SettingsChoices : InitSettings(loaded, choice)
    \/ \E fetched \in BOOLEAN, blocks \in FetchedBlocks : InitBlocks(fetched, blocks)
    \/ ClickControl
    \/ \E fetched \in BOOLEAN, blocks \in FetchedBlocks :
           ClickControlEmptyCache(fetched, blocks)
    \/ \E outcome \in SubmitOutcomes : SyncToBackground(outcome)
    \/ \E fetched \in BOOLEAN, blocks \in FetchedBlocks : RefreshTimer(fetched, blocks)
    \/ \E t \in Layouts(platform) : HostChangesLayout(t)

SpecRemote == Init /\ [][NextRemote]_vars

-----------------------------------------------------------------------------
(* The capture listeners: setupMessageCapture() and addSendListeners(), on   *)
(* a page whose host shows, replaces and re-renders its send action and its  *)
(* editor.                                                                   *)

\* faulty variant: a listener is registered again
addEventListener_NoDedupe(listeners, handler) == Append(listeners, handler)

\* target.addEventListener(type, handler): a handler already registered for
\* the type is not registered again
addEventListener(listeners, handler) ==
    IF \E i \in 1..Len(listeners) : listeners[i] = handler THEN listeners
    ELSE Append(listeners, handler)

\* addSendListeners(), on the elements getSendButton(platform) and
\* getTextarea(platform) locate
addSendListeners(dom) ==
    LET sendButton == dom.sendButton
        textarea == dom.textarea
        forSend == sendButton # NullNode
                   /\ "lettaListener" \notin dom.els[sendButton].dataset
        d1 == IF forSend
              THEN [dom EXCEPT
                      !.els[sendButton].dataset = @ \cup {"lettaListener"},
                      !.els[sendButton].click = addEventListener(@, "handleSend")]
              ELSE dom
        forKeys == textarea # NullNode
                   /\ "lettaKeyListener" \notin d1.els[textarea].dataset
        d2 == IF forKeys
              THEN [d1 EXCEPT
                      !.els[textarea].dataset = @ \cup {"lettaKeyListener"},
                      !.els[textarea].keydown = addEventListener(@, "handleKeydown")]
              ELSE d1
    IN  [d2 EXCEPT !.last =
            [name |-> "addSendListeners",
             called |-> forSend \/ forKeys,
             had |-> \/ forSend /\ dom.els[sendButton].click # <<>>
                     \/ forKeys /\ dom.els[textarea].keydown # <<>>]]

HostTouched(dom) == [dom EXCEPT !.last = [name |-> "host", called |-> FALSE,
                                          had |-> FALSE]]

InitCapture ==
    /\ platform \in Platforms
    /\ editor = EmptyEditor("none")
    /\ injectedMemoryIds = {}
    /\ inputValueCopy = EmptyStr
    /\ sendText = EmptyStr
    /\ captureTimers = 0
    /\ keys = 0
    /\ lastOp = NoOp
    /\ EngineIdle
    /\ rtPc = "idle" /\ rtBlocks = <<>> /\ rtText = EmptyStr
    /\ rtContent = EmptyStr /\ rtOut = EmptyStr
    /\ LocIdle
    /\ RecIdle
    /\ StorageIdle
    /\ CapIdle
    /\ WrIdle
    /\ BgIdle

CaptureUnchanged ==
    UNCHANGED <<platform, engineVars, markerVars, rtPc, rtBlocks, rtText,
                rtContent, rtOut, locVars, recVars, storageVars, wrVars, bgVars>>

\* setupMessageCapture(): addSendListeners(), then the observer connected
SetupMessageCapture ==
    /\ capPc = "init"
    /\ capPc' = "set"
    /\ capDom' = addSendListeners(capDom)
    /\ CaptureUnchanged

\* addSendListeners() called by the capture observer's callback, or by the
\* timer the navigation monitor sets
AddSendListeners ==
    /\ capPc = "set"
    /\ capDom' = addSendListeners(capDom)
    /\ UNCHANGED capPc
    /\ CaptureUnchanged

\* the host page renders a new element as its send action (e = NullNode: it
\* removes the send action)
HostRendersSend(e) ==
    /\ e # capDom.sendButton
    /\ e # capDom.textarea \/ e = NullNode
    /\ capDom' = HostTouched(
          IF e = NullNode THEN [capDom EXCEPT !.sendButton = NullNode]
          ELSE [capDom EXCEPT !.sendButton = e, !.els[e] = NewElement])
    /\ UNCHANGED capPc
    /\ CaptureUnchanged

\* the host page renders a new element as its editor (e = NullNode: it
\* removes the editor)
HostRendersEditor(e) ==
    /\ e # capDom.textarea
    /\ e # capDom.sendButton \/ e = NullNode
    /\ capDom' = HostTouched(
          IF e = NullNode THEN [capDom EXCEPT !.textarea = NullNode]
          ELSE [capDom EXCEPT !.textarea = e, !.els[e] = NewElement])
    /\ UNCHANGED capPc
    /\ CaptureUnchanged

\* the host page re-renders an element in place: the attributes it does not
\* render itself are dropped, the element and its listeners stay
HostResetsAttributes(e) ==
    /\ capDom.els[e].dataset # {}
    /\ capDom' = HostTouched([capDom EXCEPT !.els[e].dataset = {}])
    /\ UNCHANGED capPc
    /\ CaptureUnchanged

NextCapture ==
    \/ SetupMessageCapture
    \/ AddSendListeners
    \/ \E e \in ElementIds \cup {NullNode} : HostRendersSend(e)
    \/ \E e \in ElementIds \cup {NullNode} : HostRendersEditor(e)
    \/ \E e \in ElementIds : HostResetsAttributes(e)

SpecCapture == InitCapture /\ [][NextCapture]_vars

-----------------------------------------------------------------------------
(* Writing to the editor: setInputValue(element, value) on each platform,    *)
(* for each element the platform's selectors can locate.                     *)

\* the elements written to: empty, or holding one line the user typed
WriteKinds == {"textarea", "input", "ce", "pm", "p", "pe"}
WriteElements ==
    {EmptyEditor(k) : k \in WriteKinds}
    \cup {Editor(k, EmptyStr, << <<"q">> >>) : k \in {"ce", "pm"}}
    \cup {Editor(k, <<"q">>, <<>>) : k \in {"textarea", "input", "p", "pe"}}

\* the texts written: the short texts, and two lines the user typed
WriteTexts == RtTexts \cup {<<"q", NL, "q">>}

InitWrite ==
    /\ platform \in Platforms
    /\ editor = EmptyEditor("none")
    /\ injectedMemoryIds = {}
    /\ inputValueCopy = EmptyStr
    /\ sendText = EmptyStr
    /\ captureTimers = 0
    /\ keys = 0
    /\ lastOp = NoOp
    /\ EngineIdle
    /\ rtPc = "idle" /\ rtBlocks = <<>> /\ rtText = EmptyStr
    /\ rtContent = EmptyStr /\ rtOut = EmptyStr
    /\ LocIdle
    /\ RecIdle
    /\ StorageIdle
    /\ CapIdle
    /\ wrPc = "input"
    /\ wrIn \in [el : WriteElements, value : WriteTexts, edited : BOOLEAN]
    /\ wrIn.edited => wrIn.el.text # EmptyStr
    /\ wrOut = NoWrite
    /\ BgIdle

\* setInputValue(element, value); a <textarea> the user has edited keeps
\* its value when its innerHTML is assigned
Write ==
    /\ wrPc = "input"
    /\ LET w == setInputValue(platform, wrIn.el, wrIn.value)
       IN  wrOut' = IF platform = "claude" /\ wrIn.el.kind = "textarea" /\ wrIn.edited
                    THEN [w EXCEPT !.editor = wrIn.el]
                    ELSE w
    /\ wrPc' = "done"
    /\ UNCHANGED <<platform, engineVars, markerVars, rtPc, rtBlocks, rtText,
                   rtContent, rtOut, locVars, recVars, storageVars, capVars, wrIn, bgVars>>

SpecWrite == InitWrite /\ [][Write]_vars

-----------------------------------------------------------------------------
(* The two platform resolvers: detectPlatform() of the content script, on    *)
(* window.location.hostname, and detectPlatform(url) of the background, on   *)
(* the window.location.href carried in the capture payload.  An address is   *)
(* its host name and what follows it, each a sequence of atoms; a domain     *)
(* name is one atom.                                                         *)

Address(hostname, rest) == [hostname |-> hostname, rest |-> rest]

\* window.location.href of an address
Href(a) == <<"https://">> \o a.hostname \o a.rest

\* detectPlatform() of the content script
detectPlatform(hostname) ==
    IF Includes(hostname, <<"chat.openai.com">>) \/ Includes(hostname, <<"chatgpt.com">>)
    THEN "chatgpt"
    ELSE IF Includes(hostname, <<"claude.ai">>) THEN "claude"
    ELSE IF Includes(hostname, <<"gemini.google.com">>) THEN "gemini"
    ELSE IF Includes(hostname, <<"perplexity.ai">>) THEN "perplexity"
    ELSE NoPlatform

\* detectPlatform(url) of the background
bgDetectPlatform(url) ==
    IF url = EmptyStr THEN NoPlatform
    ELSE IF Includes(url, <<"chatgpt.com">>) \/ Includes(url, <<"chat.openai.com">>)
    THEN "chatgpt"
    ELSE IF Includes(url, <<"claude.ai">>) THEN "claude"
    ELSE IF Includes(url, <<"perplexity.ai">>) THEN "perplexity"
    ELSE IF Includes(url, <<"gemini.google.com">>) THEN "gemini"
    ELSE NoPlatform

\* the domain names the resolvers look for
PlatformDomains ==
    {"chatgpt.com", "chat.openai.com", "claude.ai", "gemini.google.com",
     "perplexity.ai"}

\* the addresses resolved: the hosts of the supported platforms and one
\* other host; a plain path, or a query that names a domain
HostNames ==
    {<<d>> : d \in PlatformDomains}
    \cup {<<"www.", "perplexity.ai">>, <<"www.", "chatgpt.com">>, <<"example.com">>}
Rests ==
    {<<"/">>, <<"/c/1">>}
    \cup {<<"/search?q=", d>> : d \in PlatformDomains \cup {"example.com"}}
Addresses == {Address(h, r) : h \in HostNames, r \in Rests}

InitDetect ==
    /\ det \in {[pc |-> "input", url |-> a, content |-> NoPlatform,
                  background |-> NoPlatform] : a \in Addresses}
    /\ platform = detectPlatform(det.url.hostname)
    /\ editor = EmptyEditor("none")
    /\ injectedMemoryIds = {}
    /\ inputValueCopy = EmptyStr
    /\ sendText = EmptyStr
    /\ captureTimers = 0
    /\ keys = 0
    /\ lastOp = NoOp
    /\ EngineIdle
    /\ rtPc = "idle" /\ rtBlocks = <<>> /\ rtText = EmptyStr
    /\ rtContent = EmptyStr /\ rtOut = EmptyStr
    /\ LocIdle
    /\ RecIdle
    /\ StorageIdle
    /\ CapIdle
    /\ WrIdle
    /\ bg = BgStart
    /\ store = NoStore

\* the content script resolves its page, the background the address of the
\* payload
Detect ==
    /\ det.pc = "input"
    /\ det' = [det EXCEPT !.pc = "done",
                          !.content = detectPlatform(det.url.hostname),
                          !.background = bgDetectPlatform(Href(det.url))]
    /\ UNCHANGED <<platform, engineVars, markerVars, rtPc, rtBlocks, rtText,
                   rtContent, rtOut, locVars, recVars, storageVars, capVars,
                   wrVars, bg, store>>

SpecDetect == InitDetect /\ [][Detect]_vars

-----------------------------------------------------------------------------
(* The background service worker (background.ts): the onMessage listener and *)
(* handleSync.  A handleSync call runs to its first await (getSettings), is  *)
(* resumed with the settings and runs to its second await (captureMessages), *)
(* and is resumed with the outcome of the capture; calls of several messages *)
(* interleave at the awaits.  A userMessage is its first 200 characters      *)
(* (head) and what follows them (rest).                                      *)

TickMs == 1000
MaxTicks == 2
MaxCalls == 2
MaxSubmits == 2

CONTEXT_PATTERNS ==
    {"<memory>", "<user_context>", "LETTA MEMORY CONTEXT", "Letta", "[persona]",
     "[human]"}

Message(head, rest) == [head |-> head, rest |-> rest]
TextOf(m) == m.head \o m.rest

\* userMessage.slice(0, 200)
msgHash(m) == m.head

\* the userMessage of a payload built from the text captureAndSync() hands
\* to syncToBackground (shorter than 200 characters here)
ToMessage(text) == Message(text, EmptyStr)

\* messages any sender may put in a LETTA_SYNC payload: empty, blank, a
\* text of 200 characters, the same text with more after it, injected context
SyncMessages ==
    {Message(EmptyStr, EmptyStr), Message(<<" ">>, EmptyStr),
     Message(<<"first 200">>, EmptyStr), Message(<<"first 200">>, <<"more">>),
     Message(<<"LETTA MEMORY CONTEXT">>, EmptyStr)}

\* what the editor and inputValueCopy hold when captureAndSync() runs
SendTexts == {EmptyStr, <<" ">>, <<"q">>, <<NL, "q", " ">>}

\* the settings getSettings() delivers to handleSync
SyncSettings ==
    {[configured |-> FALSE, captureTargets |-> {}],
     [configured |-> TRUE, captureTargets |-> {}],
     [configured |-> TRUE, captureTargets |-> Platforms]}

\* the pages captures come from
SyncPages == {Address(<<"claude.ai">>, <<"/c/1">>), Address(<<"example.com">>, <<"/">>)}

\* faulty variant: no deduplication
Validate_NoDedup(payload, loaded, lastHash) ==
    IF ~loaded.configured THEN "Not configured"
    ELSE IF bgDetectPlatform(payload.url) = NoPlatform THEN "Unknown platform"
    ELSE IF bgDetectPlatform(payload.url) \notin loaded.captureTargets
    THEN "Capture disabled"
    ELSE IF \E i \in 1..Len(TextOf(payload.userMessage)) :
                TextOf(payload.userMessage)[i] \in CONTEXT_PATTERNS
    THEN "Contains Letta context"
    ELSE IF Trim(TextOf(payload.userMessage)) = EmptyStr THEN "Empty message"
    ELSE "ok"

\* faulty variant: empty messages are not skipped
Validate_NoEmptyCheck(payload, loaded, lastHash) ==
    IF ~loaded.configured THEN "Not configured"
    ELSE IF bgDetectPlatform(payload.url) = NoPlatform THEN "Unknown platform"
    ELSE IF bgDetectPlatform(payload.url) \notin loaded.captureTargets
    THEN "Capture disabled"
    ELSE IF \E i \in 1..Len(TextOf(payload.userMessage)) :
                TextOf(payload.userMessage)[i] \in CONTEXT_PATTERNS
    THEN "Contains Letta context"
    ELSE IF msgHash(payload.userMessage) = lastHash THEN "Duplicate message"
    ELSE "ok"

\* handleSync() between `await getSettings()` and the update of
\* lastSyncTime: the error it returns, or "ok"
Validate(payload, loaded, lastHash) ==
    IF ~loaded.configured THEN "Not configured"
    ELSE IF bgDetectPlatform(payload.url) = NoPlatform THEN "Unknown platform"
    ELSE IF bgDetectPlatform(payload.url) \notin loaded.captureTargets
    THEN "Capture disabled"
    ELSE IF \E i \in 1..Len(TextOf(payload.userMessage)) :
                TextOf(payload.userMessage)[i] \in CONTEXT_PATTERNS
    THEN "Contains Letta context"
    ELSE IF Trim(TextOf(payload.userMessage)) = EmptyStr THEN "Empty message"
    ELSE IF msgHash(payload.userMessage) = lastHash THEN "Duplicate message"
    ELSE "ok"

\* a sequence without its i-th element
Without(seq, i) == SubSeq(seq, 1, i - 1) \o SubSeq(seq, i + 1, Len(seq))

\* history: the last step of the service worker, and for the end of a
\* capture the lastCapturedHash before it
BgStep(name, before) == [name |-> name, before |-> before]

InitBackground ==
    /\ platform = "claude"
    /\ editor = EmptyEditor("textarea")
    /\ injectedMemoryIds = {}
    /\ inputValueCopy = EmptyStr
    /\ sendText = EmptyStr
    /\ captureTimers = 0
    /\ keys = 0
    /\ lastOp = NoOp
    /\ EngineIdle
    /\ rtPc = "idle" /\ rtBlocks = <<>> /\ rtText = EmptyStr
    /\ rtContent = EmptyStr /\ rtOut = EmptyStr
    /\ LocIdle
    /\ RecIdle
    /\ StorageIdle
    /\ CapIdle
    /\ WrIdle
    /\ BgIdle

BackgroundUnchanged ==
    UNCHANGED <<platform, engineVars, markerVars, rtPc, rtBlocks, rtText,
                rtContent, rtOut, locVars, recVars, storageVars, capVars,
                wrVars, store, det>>

\* the onMessage listener calls handleSync(payload), which runs to
\* `await getSettings()` or returns "Rate limited": the service worker
\* afterwards
handleSyncBegins(payload) ==
    IF bg.clock - bg.lastSyncTime < SYNC_COOLDOWN_MS
    THEN [bg EXCEPT !.last = BgStep("Rate limited", NoHash)]
    ELSE [bg EXCEPT
            !.calls = Append(@, [pc |-> "getSettings", payload |-> payload,
                                 now |-> bg.clock, submit |-> 0]),
            !.last = BgStep("handleSync", NoHash)]

\* a LETTA_SYNC message of any sender arrives
Receive(m, page) ==
    /\ Len(bg.calls) < MaxCalls
    /\ bg' = handleSyncBegins([userMessage |-> m, url |-> Href(page)])
    /\ BackgroundUnchanged

\* captureAndSync() of the content script, with the editor holding text and
\* inputValueCopy holding copy: the message it emits, if any, arrives
\* (emitted: the userMessage the content script emitted last)
ContentScriptSends(text, copy) ==
    LET c == captureAndSync(platform, Editor("textarea", text, <<>>), copy)
    IN  /\ c.sent # NoCapture
        /\ Len(bg.calls) < MaxCalls
        /\ bg' = [handleSyncBegins(
                      [userMessage |-> ToMessage(c.sent),
                       url |-> Href(Address(<<"claude.ai">>, <<"/c/1">>))])
                  EXCEPT !.emitted = c.sent]
        /\ BackgroundUnchanged

\* call i resumes after `await getSettings()`: the checks, then lastSyncTime
\* updated and captureMessages() called, or an error returned
SettingsLoaded(i, loaded) ==
    /\ i \in 1..Len(bg.calls)
    /\ bg.calls[i].pc = "getSettings"
    /\ LET call == bg.calls[i]
           verdict == Validate(call.payload, loaded, bg.lastCapturedHash)
       IN  IF verdict = "ok"
           THEN /\ Len(bg.submitted) < MaxSubmits
                /\ bg' = [bg EXCEPT
                            !.lastSyncTime = call.now,
                            !.submitted = Append(@,
                                [time |-> bg.clock,
                                 userMessage |-> call.payload.userMessage,
                                 last |-> bg.lastCapturedHash,
                                 outcome |-> "pending"]),
                            !.calls[i].pc = "captureMessages",
                            !.calls[i].submit = Len(bg.submitted) + 1,
                            !.last = BgStep("submitted", NoHash)]
           ELSE bg' = [bg EXCEPT !.calls = Without(@, i),
                                 !.last = BgStep(verdict, NoHash)]
    /\ BackgroundUnchanged

\* call i resumes after `await apiService.captureMessages(...)`: captured
\* (lastCapturedHash set) or the error caught
CaptureDone(i, captured) ==
    /\ i \in 1..Len(bg.calls)
    /\ bg.calls[i].pc = "captureMessages"
    /\ LET call == bg.calls[i]
           hash == msgHash(call.payload.userMessage)
       IN  bg' = [bg EXCEPT
                    !.lastCapturedHash = IF captured THEN hash ELSE @,
                    !.submitted[call.submit].outcome =
                        IF captured THEN "captured" ELSE "failed",
                    !.calls = Without(@, i),
                    !.last = BgStep(IF captured THEN "captured" ELSE "capture failed",
                                    bg.lastCapturedHash)]
    /\ BackgroundUnchanged

\* time passes
Tick ==
    /\ bg.clock < SYNC_COOLDOWN_MS + MaxTicks * TickMs
    /\ bg' = [bg EXCEPT !.clock = @ + TickMs]
    /\ BackgroundUnchanged

NextBackground ==
    \/ \E m \in SyncMessages, page \in SyncPages : Receive(m, page)
    \/ \E text \in SendTexts, copy \in SendTexts : ContentScriptSends(text, copy)
    \/ \E i \in 1..MaxCalls, loaded \in SyncSettings : SettingsLoaded(i, loaded)
    \/ \E i \in 1..MaxCalls, captured \in BOOLEAN : CaptureDone(i, captured)
    \/ Tick

SpecBackground == InitBackground /\ [][NextBackground]_vars

-----------------------------------------------------------------------------
(* The settings storage (utils/storage.ts): saveSettings() reads the stored  *)
(* settings with getSettings(), suspends until they arrive, merges the       *)
(* updates into them and writes the whole object back; calls of several      *)
(* callers (popup, setStoredData, removeStoredData) interleave at the        *)
(* awaits.                                                                   *)

MaxSaves == 2

\* the fields of Settings the legacy writers setStoredData and
\* removeStoredData set
SettingsFields == {"apiKey", "agentId", "enabledBlocks"}

DEFAULT_SETTINGS ==
    [apiKey |-> "", agentId |-> "", enabledBlocks |-> "DEFAULT_ENABLED_BLOCKS"]

\* the values a caller saves: removeStoredData resets a field to empty,
\* setStoredData sets what it is given
SavedValues == {"", "saved"}

\* Partial<Settings>: the updates a caller hands to saveSettings()
SettingsUpdates == UNION {[d -> SavedValues] : d \in SUBSET SettingsFields}

\* the object spread { ...a, ...b }
Spread(a, b) ==
    [f \in DOMAIN a \cup DOMAIN b |-> IF f \in DOMAIN b THEN b[f] ELSE a[f]]

\* getSettings(): the stored object (none: {}) merged over the defaults
getSettings(stored) == Spread(DEFAULT_SETTINGS, stored)

InitStore ==
    /\ platform = "claude"
    /\ editor = EmptyEditor("textarea")
    /\ injectedMemoryIds = {}
    /\ inputValueCopy = EmptyStr
    /\ sendText = EmptyStr
    /\ captureTimers = 0
    /\ keys = 0
    /\ lastOp = NoOp
    /\ EngineIdle
    /\ rtPc = "idle" /\ rtBlocks = <<>> /\ rtText = EmptyStr
    /\ rtContent = EmptyStr /\ rtOut = EmptyStr
    /\ LocIdle
    /\ RecIdle
    /\ StorageIdle
    /\ CapIdle
    /\ WrIdle
    /\ BgIdle

StoreUnchanged ==
    UNCHANGED <<platform, engineVars, markerVars, rtPc, rtBlocks, rtText,
                rtContent, rtOut, locVars, recVars, storageVars, capVars,
                wrVars, bg, det>>

\* saveSettings(updates) is called and runs to `await getSettings()`
\* (after: the number of saveSettings calls completed before it began)
saveSettings(updates) ==
    /\ Len(store.calls) + Len(store.done) < MaxSaves
    /\ store' = [store EXCEPT
                   !.calls = Append(@, [pc |-> "getSettings", updates |-> updates,
                                        updated |-> [f \in {} |-> ""],
                                        after |-> Len(store.done)])]
    /\ StoreUnchanged

\* chrome.storage.sync.get answers call i: current = getSettings(),
\* updated = { ...current, ...updates }, chrome.storage.sync.set called
SettingsRead(i) ==
    /\ i \in 1..Len(store.calls)
    /\ store.calls[i].pc = "getSettings"
    /\ store' = [store EXCEPT
                   !.calls[i].pc = "set",
                   !.calls[i].updated =
                       Spread(getSettings(store.stored), store.calls[i].updates)]
    /\ StoreUnchanged

\* chrome.storage.sync.set of call i writes the object and answers: the call
\* completes
SettingsWritten(i) ==
    /\ i \in 1..Len(store.calls)
    /\ store.calls[i].pc = "set"
    /\ store' = [store EXCEPT
                   !.stored = store.calls[i].updated,
                   !.calls = Without(@, i),
                   !.done = Append(@, store.calls[i])]
    /\ StoreUnchanged

NextStore ==
    \/ \E updates \in SettingsUpdates : saveSettings(updates)
    \/ \E i \in 1..MaxSaves : SettingsRead(i)
    \/ \E i \in 1..MaxSaves : SettingsWritten(i)

SpecStore == InitStore /\ [][NextStore]_vars

-----------------------------------------------------------------------------
(* Properties *)

\* the tracked wrapper is out of the document: the host page removed the
\* mounted control
HostRemovedControl == buttonHost # NullNode /\ ~nodes[buttonHost].inDoc

\* a placement strategy of the platform finds its target
TargetAvailable == MountStrategy(platform, targets) # "none"

\* C1: in every reachable state the document holds at most one engine
\* control, whatever the interleaving of watchdog callbacks, interval ticks,
\* retry timers, navigation polls, re-mount timers and host removals.
\* (checked under Spec)
C1_AtMostOneControl == ControlCount(nodes) <= 1

\* C1 witness: the delayed re-mount of a navigation ran when the watchdog had
\* already put the control back, and one control is in the document
C1_Witness ==
    /\ lastStep.name = "RemountTimer"
    /\ lastStep.had
    /\ ControlCount(nodes) = 1

\* C2 as stated: whenever the host page has removed the mounted control, the
\* next watchdog observer callback or interval tick leaves exactly one control
\* in the document.  (checked under Spec)
C2_AlwaysRestored ==
    [][((ObserverCallback \/ IntervalTick) /\ HostRemovedControl)
          => ControlCount(nodes') = 1]_vars

\* C2 amended: whenever the host page has removed the mounted control and a
\* placement strategy finds its target, the next watchdog observer callback
\* or interval tick leaves exactly one control in the document.
\* (checked under Spec)
C2_RestoredWhenTargetAvailable ==
    [][((ObserverCallback \/ IntervalTick) /\ HostRemovedControl /\ TargetAvailable)
          => ControlCount(nodes') = 1]_vars

\* C2 witness: a watchdog callback found the tracked wrapper out of the
\* document and inserted a new one
C2_Witness ==
    /\ lastStep.name \in {"ObserverCallback", "IntervalTick"}
    /\ lastStep.lost
    /\ lastStep.inserted
    /\ ControlCount(nodes) = 1

\* C3: every wrapper whose window scroll/resize listeners are live is the
\* tracked wrapper; a wrapper that stops being tracked has had its teardown
\* closure invoked, so when no wrapper is tracked no listener of the engine
\* remains.  (checked under Spec)
C3_TeardownBeforeUntracking ==
    /\ \A n \in NodeIds : nodes[n].listening => n = buttonHost
    /\ buttonHost = NullNode => ~ListenersLive(nodes)

\* C3 witness: a floating wrapper the host page had removed was untracked by
\* a later step, and no window listener is left
C3_Witness ==
    /\ lastStep.lost
    /\ lastStep.tornDown
    /\ buttonHost = NullNode

C8_MountIdempotent ==
    LET once == mountButtonOnEditor(platform, targets, EngineState)
    IN  /\ DocHasButton(nodes) => once = EngineState
        /\ (once.inBounds /\ DocHasButton(once.nodes))
              => /\ mountButtonOnEditor(platform, targets, once) = once
                 /\ ControlCount(once.nodes) = 1

\* C8 witness: a retry timer called mountButtonOnEditor() with the control
\* in the document; nothing was inserted and one control is there
C8_Witness ==
    /\ lastStep.name = "RetryTimer"
    /\ lastStep.had
    /\ ~lastStep.inserted
    /\ ControlCount(nodes) = 1

FooterFree(memories) ==
    \A i \in 1..Len(memories) :
        /\ ~Includes(memories[i].value, MEMORY_FOOTER)
        /\ ~Includes(memories[i].label, MEMORY_FOOTER)

\* C5 as stated: for any block list B and any marker-free text T,
\* stripOut(spliceIn(B) followed by T) = T.trim().  (checked under SpecRoundTrip)
C5_AnyBlocks == rtPc = "stripped" => rtOut = Trim(rtText)

\* C5 amended: the round trip stripOut(spliceIn(B) followed by T) = T.trim() holds
\* for any marker-free text T and any block list B whose labels and values
\* do not contain the footer literal.  (checked under SpecRoundTrip)
C5_RoundTrip ==
    (rtPc = "stripped" /\ FooterFree(rtBlocks)) => rtOut = Trim(rtText)

C5_Witness ==
    /\ rtPc = "stripped"
    /\ rtBlocks = <<FactsBlock, BareBlock>>
    /\ rtText = <<" ", "q">>
    /\ rtOut = <<"q">>

\* C6: spliceIn of the single block {facts, "Uses a laptop"} on an empty plain
\* editor leaves exactly header, blank line, [facts], the text, blank line,
\* footer and two line breaks.  (checked under SpecMarker)
C6_ExactContent ==
    (/\ lastOp.name = "SpliceIn"
     /\ lastOp.arg = <<FactsBlock>>
     /\ lastOp.pre.empty
     /\ lastOp.ret = "true"
     /\ editor.kind = "textarea")
    => getInputValue(editor) =
          MEMORY_HEADER \o <<NL, NL, "[", "facts", "]", NL, "Uses a laptop", NL, NL>>
          \o MEMORY_FOOTER \o <<NL, NL>>

CleanMessage(m) ==
    /\ ~Includes(m, MEMORY_HEADER)
    /\ ~Includes(m, MEMORY_FOOTER)
    /\ \A b \in Blocks :
          /\ ~Includes(m, <<"[">> \o LabelOf(b) \o <<"]">>)
          /\ ~Includes(m, b.value)
    /\ \A i \in 1..Len(m) : m[i] \in UserChars \cup {NL}

AlreadyInjected(memory) == memory.id # "" /\ memory.id \in injectedMemoryIds

\* C9 as stated: from every reachable state with an empty editor, addOne(block)
\* and spliceIn([block]) produce the same content, return value and
\* InjectedMemorySet.  (checked under SpecMarker)
C9_AlwaysEquivalent ==
    \A b \in Blocks :
        getInputValue(editor) = EmptyStr
        => addSingleMemory(platform, editor, injectedMemoryIds, b)
           = injectMemories(platform, editor, injectedMemoryIds, <<b>>)

\* C9 for the blocks whose id is not in InjectedMemorySet: on an empty editor
\* addOne(block) and spliceIn([block]) produce the same content, return value
\* and InjectedMemorySet.  (checked under SpecMarker)
C9_EquivalentUnlessInjected ==
    \A b \in Blocks :
        (getInputValue(editor) = EmptyStr /\ ~AlreadyInjected(b))
        => addSingleMemory(platform, editor, injectedMemoryIds, b)
           = injectMemories(platform, editor, injectedMemoryIds, <<b>>)

C9_Witness ==
    /\ lastOp.name = "AddOne"
    /\ lastOp.arg = <<FactsBlock>>
    /\ lastOp.pre.empty
    /\ lastOp.ret = "true"
    /\ injectedMemoryIds = {"b1"}
    /\ Includes(getInputValue(editor), MEMORY_FOOTER)

\* C10: addOne on a content that holds the header but no footer returns failure,
\* writes nothing (content unchanged, no notification event) and leaves
\* InjectedMemorySet unchanged.  (checked under SpecMarker)
C10_MalformedIsNoOp ==
    \A b \in Blocks :
        (/\ Includes(getInputValue(editor), MEMORY_HEADER)
         /\ ~Includes(getInputValue(editor), MEMORY_FOOTER))
        => addSingleMemory(platform, editor, injectedMemoryIds, b)
           = Outcome(FALSE, editor, injectedMemoryIds, <<>>)

C10_Witness ==
    /\ lastOp.name = "AddOne"
    /\ lastOp.pre.header
    /\ ~lastOp.pre.footer
    /\ lastOp.ret = "false"
    /\ Includes(getInputValue(editor), MEMORY_HEADER)
    /\ ~AlreadyInjected(lastOp.arg[1])

\* C11: when the content holds the header and a footer occurs after that
\* header, stripOut returns the content without the span from the header
\* through that footer, trimmed; the text after the footer is kept.
\* (checked under SpecStrip)
C11_SpanRemoved ==
    LET h == IndexOf(rtContent, MEMORY_HEADER)
        f == IndexOfFrom(rtContent, MEMORY_FOOTER, h + Len(MEMORY_HEADER))
    IN  (rtPc = "stripped" /\ h # -1 /\ f # -1)
        => rtOut = Trim(Substring(rtContent, 0, h)
                        \o SubstringFrom(rtContent, f + Len(MEMORY_FOOTER)))

\* C11 where no footer precedes the header: the span from the header through
\* the first footer is removed and the rest kept.  (checked under SpecStrip)
C11_SpanRemovedUnlessEarlierFooter ==
    LET h == IndexOf(rtContent, MEMORY_HEADER)
        f == IndexOf(rtContent, MEMORY_FOOTER)
    IN  (rtPc = "stripped" /\ h # -1 /\ f > h)
        => rtOut = Trim(Substring(rtContent, 0, h)
                        \o SubstringFrom(rtContent, f + Len(MEMORY_FOOTER)))

C11_Witness ==
    /\ rtPc = "stripped"
    /\ rtContent = <<"q", " ">> \o MEMORY_HEADER \o MEMORY_FOOTER
    /\ rtOut = <<"q">>

\* C12: when the header occurs and no footer does, stripOut returns the
\* trimmed text that precedes the header: the content is cut from the header
\* to its end, and the result never holds the header.  (checked under
\* SpecStrip)
C12_MalformedTruncated ==
    (/\ rtPc = "stripped"
     /\ Includes(rtContent, MEMORY_HEADER)
     /\ ~Includes(rtContent, MEMORY_FOOTER))
    => /\ rtOut = Trim(Substring(rtContent, 0, IndexOf(rtContent, MEMORY_HEADER)))
       /\ ~Includes(rtOut, MEMORY_HEADER)

\* C12 witness: text, the header, more text and no footer; the text before
\* the header is returned
C12_Witness ==
    /\ rtPc = "stripped"
    /\ rtContent = <<"q", " ">> \o MEMORY_HEADER \o <<"q">>
    /\ rtOut = <<"q">>

\* number of places where pat occurs in s
Occurrences(s, pat) ==
    Cardinality({i \in 0..(Len(s) - Len(pat)) : SubSeq(s, i + 1, i + Len(pat)) = pat})

ReturnedVisible == locResult.found => locResult.visible

\* C14: for every platform and surface kind (editor, send action, anchor)
\* locate returns absent or an element that is in the document and visible,
\* and absent when no selector of the platform finds a visible element.
\* (checked under SpecLocate)
C14_AbsentOrVisible ==
    locPc = "done"
    => /\ ReturnedVisible
       /\ (/\ \A i \in 1..MaxRules :
                  /\ locDom.editorRules[i] # "visible"
                  /\ locDom.sendRules[i] # "visible"
                  /\ locDom.anchorRules[i] # "visible")
            => ~locResult.found

\* C14 for the editor and the send action: the element returned is visible,
\* and none is returned when no rule finds a visible element.  (checked
\* under SpecLocate)
C14_EditorAndSendVisible ==
    (locPc = "done" /\ locSurface \in {"editor", "send"})
    => /\ ReturnedVisible
       /\ (/\ \A i \in 1..MaxRules :
                  /\ locDom.editorRules[i] # "visible"
                  /\ locDom.sendRules[i] # "visible")
            => ~locResult.found

\* the rules of the surface asked for, and what their lookups find
SurfaceRules ==
    IF locSurface = "editor" THEN TEXTAREA_SELECTORS(platform)
    ELSE SEND_BUTTON_SELECTORS(platform)
SurfaceFound == IF locSurface = "editor" THEN locDom.editorRules ELSE locDom.sendRules

\* C15: for the editor and the send action locate returns the candidate of the
\* earliest rule of the platform's list whose candidate is present and
\* visible; a rule whose lookup throws counts as a miss.  (checked under
\* SpecLocate)
C15_EarliestVisibleRule ==
    (locPc = "done" /\ locSurface \in {"editor", "send"})
    => LET hits == {i \in 1..Len(SurfaceRules) : Lookup(SurfaceFound, i) = "visible"}
       IN  IF hits = {} THEN locResult = Absent
           ELSE /\ locResult.found
                /\ locResult.rule = Min(hits)
                /\ Lookup(SurfaceFound, locResult.rule) = "visible"

\* C15 witness: the first rule throws, the second finds a hidden element, the
\* third a visible one, which is returned
C15_Witness ==
    /\ locPc = "done"
    /\ locSurface = "send"
    /\ locDom.sendRules[1] = "throws"
    /\ locDom.sendRules[2] = "hidden"
    /\ locDom.sendRules[3] = "visible"
    /\ locResult.rule = 3

\* editors of a page that is none of the supported hosts: a text field, empty,
\* holding user text, or holding a block and user text
UnsupportedPageEditors ==
    {Editor("textarea", t, <<>>) :
        t \in {EmptyStr, <<"q">>,
               formatMemoriesForInjection(<<FactsBlock>>) \o <<"q">>}}

\* the engine has done nothing: no wrapper created or tracked, no watchdog,
\* no navigation monitor, no capture observer, no unload hook, no timer
EngineUntouched ==
    /\ nodes = [n \in NodeIds |-> FreshNode]
    /\ buttonHost = NullNode
    /\ ~buttonWatcherStarted /\ mutationObserver = 0 /\ buttonWatcherInterval = 0
    /\ ~urlMonitorInterval /\ ~captureObserver /\ ~unloadHooked
    /\ retryTimers = 0 /\ remountTimers = 0
    /\ ~ListenersLive(nodes)
    /\ cachedBlocks = <<>> /\ settings = NoSettings

\* C16: on platform none the engine does nothing, whatever the host page
\* does: it never mounts a control, never starts the watchdog or the
\* navigation monitor, never attaches capture listeners; and spliceIn, addOne
\* and the post-send clear return without writing, whatever the page's editor
\* holds and whatever is tracked.  (checked under Spec)
C16_InertOnPlatformNone ==
    platform = NoPlatform
    => /\ EngineUntouched
       /\ \A ed \in UnsupportedPageEditors, ids \in SUBSET {FactsBlock.id} :
            /\ \A memories \in BlockLists :
                  injectMemories(platform, ed, ids, memories) = Outcome(FALSE, ed, ids, <<>>)
            /\ \A memory \in Blocks :
                  addSingleMemory(platform, ed, ids, memory) = Outcome(FALSE, ed, ids, <<>>)
            /\ clearMemoriesFromInput(platform, ed, ids) = Outcome(FALSE, ed, ids, <<>>)

\* C16 witness: on platform none the host page has navigated to another URL
\* and changed nothing of the engine
C16_Witness ==
    /\ platform = NoPlatform
    /\ href # lastUrl
    /\ lastStep = HostStep

\* the engine steps that end with a run of mountButtonOnEditor()
MountSteps == {"InitSettings", "RetryTimer", "RemountTimer"}

\* C17: on each supported platform, when every platform-specific strategy
\* fails, mount tries the generic strategy before reporting failure: if a
\* send action with a parent or an anchor can be located, mount ends with the
\* control inserted.  (checked under Spec)
C17_GenericFallback ==
    (/\ platform # NoPlatform
     /\ lastStep.name \in MountSteps
     /\ GenericSurface \in targets)
    => DocHasButton(nodes)

\* the last engine step ran a mount where no control was in the document, and
\* placed none
MountFailed ==
    /\ lastStep.name \in MountSteps \cup {"ObserverCallback", "IntervalTick"}
    /\ ~lastStep.had
    /\ ~lastStep.inserted

\* C18: a failed mount leaves a retry timer pending, and with fair timers a
\* pending retry leads to the control being in the document once a placement
\* target is available and stays available.  (checked under SpecRetry)
C18_RetryUntilMounted ==
    /\ [](MountFailed => retryTimers > 0)
    /\ [](retryTimers > 0 => ([]TargetAvailable => <>DocHasButton(nodes)))

\* C18 witness: a retry timer fired when the host page had offered a target,
\* and placed the control
C18_Witness ==
    /\ lastStep.name = "RetryTimer"
    /\ ~lastStep.had
    /\ lastStep.inserted
    /\ DocHasButton(nodes)

\* C19: after the teardown that page unload triggers the engine is inert:
\* both intervals cleared, both observers disconnected, the teardown closures
\* discharged, the wrapper removed, and no engine timer pending that could
\* mount a control or attach listeners afterwards.  (checked under Spec)
C19_InertAfterUnload ==
    lastStep.name = "Cleanup"
    => /\ buttonWatcherInterval = 0 /\ ~urlMonitorInterval
       /\ mutationObserver = 0 /\ ~captureObserver
       /\ ~ListenersLive(nodes)
       /\ buttonHost = NullNode
       /\ ~DocHasButton(nodes)
       /\ retryTimers = 0
       /\ remountTimers = 0

\* C19 without the timers: after the teardown the intervals are cleared, the
\* observers disconnected, no window listener is left and the tracked wrapper
\* is removed and untracked.  (checked under Spec)
C19_TornDownAfterUnload ==
    lastStep.name = "Cleanup"
    => /\ buttonWatcherInterval = 0 /\ ~urlMonitorInterval
       /\ mutationObserver = 0 /\ ~captureObserver
       /\ ~ListenersLive(nodes)
       /\ buttonHost = NullNode
       /\ ~DocHasButton(nodes)

\* C20: the set of injected ids is empty immediately after a successful
\* capture following send or Enter: the 100 ms timer has handed a user
\* message to syncToBackground and run the post-send clear.  (checked under
\* SpecMarker)
C20_EmptyAfterCapture ==
    (lastOp.name = "CaptureTimer" /\ lastOp.out # NoCapture)
    => injectedMemoryIds = {}

\* C20 with an editor located: after the 100 ms timer of send or Enter has
\* run and getTextarea() found the editor, the set of injected ids is empty.
\* (checked under SpecMarker)
C20_EmptyAfterClear ==
    (lastOp.name = "CaptureTimer" /\ Located(platform, editor))
    => injectedMemoryIds = {}

\* the header...footer span of a content: from the first header through the
\* first footer after it; empty when there is no such span
BlockSpan(content) ==
    LET startIdx == IndexOf(content, MEMORY_HEADER)
        endIdx == IF startIdx = -1 THEN -1
                  ELSE IndexOfFrom(content, MEMORY_FOOTER, startIdx)
    IN  IF startIdx = -1 \/ endIdx = -1 THEN EmptyStr
        ELSE Substring(content, startIdx, endIdx + Len(MEMORY_FOOTER))

\* the labeled section of a block as the formatter writes it
SectionOf(memory) == <<"[">> \o LabelOf(memory) \o <<"]", NL>> \o memory.value

\* C21: in every reachable state every identifier in the set of injected ids
\* is the id of a block whose labeled section is inside the header...footer
\* span of the editor content, the content being the text the editor shows,
\* one line per paragraph.  (checked under SpecMarker)
C21_TrackedIdsInSpan ==
    \A id \in injectedMemoryIds :
        \E memory \in Blocks :
            /\ memory.id = id
            /\ Includes(BlockSpan(InnerText(editor)), SectionOf(memory))

\* C22: every send action and every Enter without Shift detected while the
\* located editor holds non-empty user text leads to a capture whose
\* userMessage is that text: when the timer of the send runs, it emits the
\* text the editor held when the send was detected.  (checked under
\* SpecSend)
C22_SendCapturesText ==
    (lastOp.name = "CaptureTimer" /\ sendText # EmptyStr)
    => lastOp.out = sendText

BlocksEnabledBy(labels) ==
    IF labels # {} THEN SelectSeq(cachedBlocks, LAMBDA b : b.label \in labels)
    ELSE cachedBlocks

\* C24: the enabled labels a click on the control uses are those stored at
\* the time of the click, also when the settings were saved again after the
\* engine started: the block the click wrote is made of the blocks the saved
\* settings enable.  (checked under SpecSettings)
C24_ClickUsesStoredSettings ==
    (/\ lastStep.name = "ClickControl"
     /\ savedSettings # NotSaved
     /\ Located(platform, editor))
    => InnerText(editor)
       = formatMemoriesForInjection(BlocksEnabledBy(savedSettings.enabledBlocks))

\* C24 as the code has it: the enabled labels a click uses are those init()
\* read, whatever was saved since.  (checked under SpecSettings)
C24_ClickUsesLoadedSettings ==
    (lastStep.name = "ClickControl" /\ Located(platform, editor))
    => InnerText(editor)
       = formatMemoriesForInjection(BlocksEnabledBy(settings.enabledBlocks))

\* C25 (as stated): a remote call that fails, the block fetch or the capture
\* submit, is surfaced by a toast
C25_FailureShowsToast ==
    remote.failed => remote.toasts # <<>>

\* C25 (its part about the click on the control): a block fetch made by the
\* click that fails ends with the error toast
C25_ClickFetchFailureShowsToast ==
    (remote.call = "fetch" /\ remote.failed) =>
        remote.toasts = <<"info", "error">>

\* the tracked wrapper is a zombie: referenced, its control out of the
\* document, and no other control of the engine in the document
ZombieTracked(s) ==
    /\ s.buttonHost # NullNode
    /\ ~s.nodes[s.buttonHost].inDoc
    /\ ~DocHasButton(s.nodes)

\* C26: when mountButtonOnEditor() runs with a zombie reference, the wrapper
\* it tracked has had its teardown closure invoked and is no longer tracked
\* when the mount returns, whether or not a placement succeeded; when a new
\* wrapper was inserted, the only wrapper with live window listeners is the
\* new one.  (checked under Spec)
C26_ZombieRemovedBeforePlacement ==
    /\ ZombieTracked(EngineState) =>
          LET r == mountButtonOnEditor(platform, targets, EngineState)
          IN  /\ ~r.nodes[buttonHost].listening
              /\ r.buttonHost # buttonHost
              /\ \A n \in NodeIds : r.nodes[n].listening => n = r.buttonHost
    /\ (lastStep.lost /\ lastStep.inserted) =>
          \A n \in NodeIds : nodes[n].listening => n = buttonHost

\* C26 witness: a retry timer ran mountButtonOnEditor() while a floating
\* wrapper the host page had removed was still tracked; its listeners were
\* discharged and a new inline wrapper was inserted
C26_Witness ==
    /\ lastStep.name = "RetryTimer"
    /\ lastStep.lost
    /\ lastStep.inserted
    /\ lastStep.tornDown
    /\ buttonHost # NullNode

\* cleanup() has run: it is registered and the navigation monitor, which
\* only cleanup() clears, is cleared
Unloaded == unloadHooked /\ ~urlMonitorInterval

\* C27: at most one watchdog observer is connected and at most one watchdog
\* interval is set, both only once the watchdog was started, whatever mounts
\* ran; once cleanup() has run neither is live again.  (checked under Spec)
C27_WatchdogStartedOnce ==
    /\ mutationObserver <= 1
    /\ buttonWatcherInterval <= 1
    /\ (mutationObserver > 0 \/ buttonWatcherInterval > 0) => buttonWatcherStarted
    /\ Unloaded => (mutationObserver = 0 /\ buttonWatcherInterval = 0)

\* C27 witness: after cleanup() a pending retry timer ran
\* mountButtonOnEditor() and inserted a control; the watchdog is stopped
C27_Witness ==
    /\ Unloaded
    /\ lastStep.name = "RetryTimer"
    /\ lastStep.inserted
    /\ buttonWatcherStarted
    /\ mutationObserver = 0
    /\ buttonWatcherInterval = 0

\* C28: whatever the number of addSendListeners() calls, every element
\* carries at most one click listener and at most one keydown listener of
\* the engine.  (checked under SpecCapture)
C28_AtMostOneListener ==
    \A e \in ElementIds :
        /\ Len(capDom.els[e].click) <= 1
        /\ Len(capDom.els[e].keydown) <= 1

\* C28 witness: addSendListeners() ran again on elements that already
\* carried the listeners and whose flags the host page had dropped; both
\* located elements carry one listener each
C28_Witness ==
    /\ capDom.last.name = "addSendListeners"
    /\ capDom.last.called
    /\ capDom.last.had
    /\ capDom.sendButton # NullNode
    /\ capDom.textarea # NullNode
    /\ capDom.els[capDom.sendButton].click = <<"handleSend">>
    /\ capDom.els[capDom.textarea].keydown = <<"handleKeydown">>

\* the write went to one of the two rich-text models: the ProseMirror
\* surface of claude (its root, or the placeholder paragraph inside it), the
\* Quill surface of gemini
RichModelWrite ==
    \/ platform = "claude" /\ wrIn.el.kind \in {"pm", "pe"}
    \/ platform = "gemini" /\ wrIn.el.kind = "ce"

\* C29 (as stated): every write dispatches the input notification, and a
\* write to one of the two rich-text models, retargeted or not, dispatches
\* one more notification besides it
C29_NotificationsPerSurface ==
    wrPc = "done" =>
        /\ wrOut.events # <<>>
        /\ wrOut.events[1] = "input"
        /\ RichModelWrite => Len(wrOut.events) >= 2

\* C29 (the part that holds): every write dispatches the input
\* notification, and a write to the ProseMirror root of claude dispatches
\* the change notification besides it
C29_ProseMirrorRootNotified ==
    wrPc = "done" =>
        /\ wrOut.events # <<>>
        /\ wrOut.events[1] = "input"
        /\ (platform = "claude" /\ wrIn.el.kind = "pm")
              => wrOut.events = <<"input", "change">>

\* C30 (as stated): on every supported platform a write to a textarea or an
\* input sets the field's value and dispatches input, then change
C30_FieldWrite ==
    (wrPc = "done" /\ IsField(wrIn.el.kind)) =>
        /\ wrOut.editor.text = wrIn.value
        /\ wrOut.events = <<"input", "change">>

\* C30 (the part that holds): the same on every platform but claude
C30_FieldWriteOffClaude ==
    (wrPc = "done" /\ IsField(wrIn.el.kind) /\ platform # "claude") =>
        /\ wrOut.editor.text = wrIn.value
        /\ wrOut.events = <<"input", "change">>

\* C31 (as stated): at most one retry timer set by a failed mount is pending
\* (checked under Spec)
C31_AtMostOneRetryTimer == retryTimers <= 1

\* C31 (what holds of the timers): a retry timer is pending only once the
\* watchdog was started, that is after a first mount
C31_RetryOnlyAfterMount == retryTimers > 0 => buttonWatcherStarted

\* C32 (as stated): while the re-mount timer set by the navigation monitor
\* is pending, no control of the engine is in the document
\* (checked under Spec)
C32_AbsentDuringDelay == remountTimers > 0 => ~DocHasButton(nodes)

\* C32 (what holds): the navigation monitor's own step leaves no control in
\* the document and no wrapper tracked, with the re-mount timer pending
C32_AbsentAfterNavPoll ==
    lastStep.name = "NavPoll" =>
        /\ ~DocHasButton(nodes)
        /\ buttonHost = NullNode
        /\ remountTimers > 0

\* C35 (as stated): on every address where the content script resolves a
\* platform, the background resolves the same platform from the full address
C35_ResolversAgree ==
    (det.pc = "done" /\ det.content # NoPlatform) => det.background = det.content

\* C35 (what holds): they agree when nothing after the host name names a
\* domain of another platform
C35_ResolversAgreeOnPlainPaths ==
    (/\ det.pc = "done"
     /\ det.content # NoPlatform
     /\ \A d \in PlatformDomains : ~Includes(det.url.rest, <<d>>))
    => det.background = det.content

\* C33 (as stated): any two captures submitted to the remote service are at
\* least SYNC_COOLDOWN_MS apart
C33_OneSubmitPerWindow ==
    \A i, j \in 1..Len(bg.submitted) :
        i < j => bg.submitted[j].time - bg.submitted[i].time >= SYNC_COOLDOWN_MS

\* C33 (what holds): a call that begins less than SYNC_COOLDOWN_MS after
\* the lastSyncTime it reads is refused, and lastSyncTime is the start time
\* of a call that submitted
C33_RefusedWithinCooldownOfLastSync ==
    /\ \A i \in 1..Len(bg.calls) : bg.calls[i].now <= bg.clock
    /\ bg.lastSyncTime <= bg.clock
    /\ bg.submitted # <<>> => bg.lastSyncTime >= SYNC_COOLDOWN_MS

\* C34: no message is submitted whose first 200 characters equal
\* lastCapturedHash, the hash of the last successfully captured message, at
\* the time of the submission, whatever the interleaving of the handleSync
\* calls; and a capture whose remote submit failed leaves lastCapturedHash
\* as it was, so the same message passes the check again.
\* (checked under SpecBackground)
C34_NoResubmitOfLastCaptured ==
    /\ \A i \in 1..Len(bg.submitted) :
           msgHash(bg.submitted[i].userMessage) # bg.submitted[i].last
    /\ bg.last.name = "capture failed" => bg.lastCapturedHash = bg.last.before
    /\ bg.last.name = "captured" =>
           \E i \in 1..Len(bg.submitted) :
               /\ bg.submitted[i].outcome = "captured"
               /\ bg.lastCapturedHash = msgHash(bg.submitted[i].userMessage)

\* C34 witness: a capture failed, the same first 200 characters were
\* submitted again and captured, and a third message with them was refused
\* as a duplicate
C34_Witness ==
    /\ Len(bg.submitted) = 2
    /\ bg.submitted[1].outcome = "failed"
    /\ bg.submitted[2].outcome = "captured"
    /\ msgHash(bg.submitted[1].userMessage) = msgHash(bg.submitted[2].userMessage)
    /\ bg.submitted[1].userMessage # bg.submitted[2].userMessage
    /\ bg.lastCapturedHash = msgHash(bg.submitted[2].userMessage)
    /\ bg.last.name = "Duplicate message"

\* C39: the userMessage the content script emits is never empty or
\* whitespace-only, and no capture the background handler submits to the
\* remote service has an empty or whitespace-only userMessage, whoever sent
\* the LETTA_SYNC message.
\* (checked under SpecBackground)
C39_NoEmptyCapture ==
    /\ bg.emitted # NoCapture => Trim(bg.emitted) # EmptyStr
    /\ \A i \in 1..Len(bg.calls) :
           bg.calls[i].pc = "captureMessages" =>
               Trim(TextOf(bg.calls[i].payload.userMessage)) # EmptyStr
    /\ \A i \in 1..Len(bg.submitted) :
           Trim(TextOf(bg.submitted[i].userMessage)) # EmptyStr

\* C39 witness: the content script emitted a message, a message was
\* submitted, and a whitespace-only message some sender delivered was refused
\* as empty
C39_Witness ==
    /\ bg.emitted # NoCapture
    /\ bg.submitted # <<>>
    /\ bg.last.name = "Empty message"

\* C36 (as stated): a refreshBlocks() whose remote call fails leaves
\* cachedBlocks as it was before the call
\* (checked under SpecRemote)
C36_FailedFetchKeepsCache ==
    [][(remote' # remote /\ remote'.call \in {"refresh", "fetch"} /\ remote'.failed)
           => cachedBlocks' = cachedBlocks]_vars

\* C36 (what holds): after a refreshBlocks() whose remote call failed the
\* cache is empty, whatever it held before
C36_FailedFetchEmptiesCache ==
    [][(remote' # remote /\ remote'.call \in {"refresh", "fetch"} /\ remote'.failed)
           => cachedBlocks' = <<>>]_vars

\* two saveSettings calls have completed, none is in flight, each was given
\* fields and the field sets of their updates are disjoint
TwoDisjointSavesDone ==
    /\ store.calls = <<>>
    /\ Len(store.done) = 2
    /\ \A k \in 1..2 : DOMAIN store.done[k].updates # {}
    /\ DOMAIN store.done[1].updates \cap DOMAIN store.done[2].updates = {}

\* the stored settings hold every field of the updates of completed call k
UpdatesStored(k) ==
    \A f \in DOMAIN store.done[k].updates :
        /\ f \in DOMAIN store.stored
        /\ store.stored[f] = store.done[k].updates[f]

\* C37 (as stated): after two saveSettings calls with disjoint field sets
\* have both completed, in any interleaving of their reads and writes, the
\* stored settings contain the updates of both
\* (checked under SpecStore)
C37_BothUpdatesStored ==
    TwoDisjointSavesDone => UpdatesStored(1) /\ UpdatesStored(2)

\* C37 (what holds): the stored settings contain the updates of both when
\* the second call began after the first had completed, and always those of
\* the call that completed last
C37_SequentialUpdatesStored ==
    /\ (TwoDisjointSavesDone /\ store.done[2].after = 1)
           => UpdatesStored(1) /\ UpdatesStored(2)
    /\ store.done # <<>> => UpdatesStored(Len(store.done))

\* C38 (as stated): for every editor kind, getInputValue() right after
\* setInputValue(element, text) returns text, line breaks included
\* (checked under SpecWrite)
C38_ReadAfterWrite ==
    wrPc = "done" => getInputValue(wrOut.editor) = wrIn.value

\* C38 (what holds): the text is read back from a plain form field off
\* Claude, and from a rich-text surface when the text is one line that is
\* not blank; the text content of a rich-text surface is the lines of the
\* text one after the other without the line breaks, blank lines emptied
C38_ReadAfterWriteOneLine ==
    wrPc = "done" =>
        /\ (IsField(wrIn.el.kind) /\ platform # "claude")
               => getInputValue(wrOut.editor) = wrIn.value
        /\ (IsRich(wrOut.editor.kind) /\ ~Includes(wrIn.value, <<NL>>)
                /\ Trim(wrIn.value) # EmptyStr)
               => getInputValue(wrOut.editor) = wrIn.value
        /\ IsRich(wrOut.editor.kind)
               => TextContent(wrOut.editor) = Concat(Paragraphs(wrIn.value))

====
